---- MODULE Spec2Model ----
(***************************************************************************)
(* Model of the meson configurator (mesonbuild/mconf.py and the older      *)
(* mesonconf.py script) and of the option variants of mesonlib.py.         *)
(*                                                                         *)
(* Python strings are sequences of one-character strings, so that          *)
(* splitting at '=', suffix tests, slicing, whitespace splitting and       *)
(* lower-casing are computed, not assumed.  Python values carry a type tag:*)
(* [t |-> "str" | "bool" | "int" | "list", v |-> payload].                 *)
(***************************************************************************)
EXTENDS Integers, Sequences, FiniteSets, TLC

\* ------------------------------------------------------------ bounds

\* Largest number of -D assignments given in one invocation.
MaxSets == 2

\* ------------------------------------------------------------ strings

\* str.lower() on one character (ASCII letters; every other character is
\* its own lower case in the alphabet used here).
LowerChar(ch) ==
  CASE ch = "A" -> "a" [] ch = "B" -> "b" [] ch = "C" -> "c" [] ch = "D" -> "d"
    [] ch = "E" -> "e" [] ch = "F" -> "f" [] ch = "G" -> "g" [] ch = "H" -> "h"
    [] ch = "I" -> "i" [] ch = "J" -> "j" [] ch = "K" -> "k" [] ch = "L" -> "l"
    [] ch = "M" -> "m" [] ch = "N" -> "n" [] ch = "O" -> "o" [] ch = "P" -> "p"
    [] ch = "Q" -> "q" [] ch = "R" -> "r" [] ch = "S" -> "s" [] ch = "T" -> "t"
    [] ch = "U" -> "u" [] ch = "V" -> "v" [] ch = "W" -> "w" [] ch = "X" -> "x"
    [] ch = "Y" -> "y" [] ch = "Z" -> "z" [] OTHER -> ch

\* str.lower()
lower(s) == [i \in 1..Len(s) |-> LowerChar(s[i])]

\* ch in s
Contains(s, ch) == \E i \in 1..Len(s) : s[i] = ch

\* s.find(ch) + 1, for a character that occurs in s
FirstIndex(s, ch) == CHOOSE i \in 1..Len(s) : s[i] = ch /\ \A j \in 1..(i-1) : s[j] # ch

\* s.endswith(suffix)
endswith(s, suffix) ==
  /\ Len(s) >= Len(suffix)
  /\ SubSeq(s, Len(s) - Len(suffix) + 1, Len(s)) = suffix

\* s.startswith(prefix)
startswith(s, prefix) ==
  /\ Len(s) >= Len(prefix)
  /\ SubSeq(s, 1, Len(prefix)) = prefix

\* s[:-n]
DropLast(s, n) == SubSeq(s, 1, Len(s) - n)

\* Python's whitespace characters, as far as the alphabet here has them.
IsSpace(ch) == ch \in {" ", "\t", "\n", "\r"}

RECURSIVE SplitFrom(_, _, _, _)
\* str.split() without arguments: the maximal runs of non-whitespace, in order.
\* i is the next index to read, cur the token being collected, acc the tokens so far.
SplitFrom(s, i, cur, acc) ==
  IF i > Len(s)
  THEN IF cur = <<>> THEN acc ELSE Append(acc, cur)
  ELSE IF IsSpace(s[i])
       THEN SplitFrom(s, i + 1, <<>>, IF cur = <<>> THEN acc ELSE Append(acc, cur))
       ELSE SplitFrom(s, i + 1, Append(cur, s[i]), acc)

split(s) == SplitFrom(s, 1, <<>>, <<>>)

\* o.split('=', 1) for an o that contains '=': <<key, value>>
split_eq(o) ==
  LET i == FirstIndex(o, "=")
  IN  << SubSeq(o, 1, i - 1), SubSeq(o, i + 1, Len(o)) >>

RECURSIVE join(_, _)
\* sep.join(items) for a list of strings
join(sep, items) ==
  IF items = <<>> THEN <<>>
  ELSE IF Len(items) = 1 THEN items[1]
  ELSE items[1] \o sep \o join(sep, Tail(items))

\* '"%s"' % (item,)
Quoted(item) == <<"\"">> \o item \o <<"\"">>

\* ------------------------------------------------------------ Python values

PyStr(s)  == [t |-> "str",  v |-> s]
PyBool(b) == [t |-> "bool", v |-> b]
PyInt(n)  == [t |-> "int",  v |-> n]
PyList(l) == [t |-> "list", v |-> l]

\* isinstance(x, str), isinstance(x, bool), isinstance(x, list)
IsStr(x)  == x.t = "str"
IsBool(x) == x.t = "bool"
IsList(x) == x.t = "list"

\* Outcome of a call: a normal return carrying a value, or a raised exception.
\* cls is the Python class of the exception, kind the failure of the error
\* taxonomy, fmt the message's format string and args what is interpolated.
Return(val) == [ok |-> TRUE, val |-> val]
Raise(cls, kind, fmt, args) ==
  [ok |-> FALSE, exc |-> [cls |-> cls, kind |-> kind, fmt |-> fmt, args |-> args]]

NoExc == [cls |-> "", kind |-> "", fmt |-> "", args |-> <<>>]

\* Outcome of a method that works on an object in place: the object as the call
\* leaves it, whether it returned or raised.
Returned(self) == [ok |-> TRUE, self |-> self, exc |-> NoExc]
Raised(self, r) == [ok |-> FALSE, self |-> self, exc |-> r.exc]

\* ------------------------------------------------------------ eval

\* The character at index i of s, or "" past its end.
At(s, i) == IF i >= 1 /\ i <= Len(s) THEN s[i] ELSE ""

\* The first index at or after i that holds no whitespace (Len(s)+1 if none).
SkipWs(s, i) ==
  CHOOSE j \in i..(Len(s) + 1) :
    /\ j = Len(s) + 1 \/ ~IsSpace(s[j])
    /\ \A k \in i..(j - 1) : IsSpace(s[k])

Digits == {"0", "1", "2", "3", "4", "5", "6", "7", "8", "9"}

DigitVal(ch) ==
  CASE ch = "0" -> 0 [] ch = "1" -> 1 [] ch = "2" -> 2 [] ch = "3" -> 3
    [] ch = "4" -> 4 [] ch = "5" -> 5 [] ch = "6" -> 6 [] ch = "7" -> 7
    [] ch = "8" -> 8 [] ch = "9" -> 9

\* The end of the maximal run of digits that starts at i.
DigitsEnd(s, i) ==
  CHOOSE j \in i..Len(s) :
    /\ \A k \in i..j : s[k] \in Digits
    /\ At(s, j + 1) \notin Digits

RECURSIVE DecimalValue(_, _, _)
DecimalValue(s, i, j) ==
  IF j < i THEN 0 ELSE 10 * DecimalValue(s, i, j - 1) + DigitVal(s[j])

\* One element of a list display at index i: a single-quoted string literal
\* (no quote or backslash inside) or a decimal integer literal.
\* [ok, val, next]: next is the index after the element.
ParseItem(s, i) ==
  IF At(s, i) = "'"
  THEN IF \E j \in (i + 1)..Len(s) : s[j] = "'"
       THEN LET j == CHOOSE j \in (i + 1)..Len(s) :
                       s[j] = "'" /\ \A k \in (i + 1)..(j - 1) : s[k] # "'"
            IN  [ok |-> TRUE, val |-> PyStr(SubSeq(s, i + 1, j - 1)), next |-> j + 1]
       ELSE [ok |-> FALSE, val |-> PyInt(0), next |-> i]
  ELSE IF At(s, i) \in Digits
  THEN LET j == DigitsEnd(s, i)
       IN  IF (s[i] = "0" /\ \E k \in i..j : s[k] # "0")
              \/ At(s, j + 1) \notin {"", " ", ",", "]"}
           THEN [ok |-> FALSE, val |-> PyInt(0), next |-> i]
           ELSE [ok |-> TRUE, val |-> PyInt(DecimalValue(s, i, j)), next |-> j + 1]
  ELSE [ok |-> FALSE, val |-> PyInt(0), next |-> i]

RECURSIVE ParseElems(_, _, _)
\* The elements of a list display from index i (an element is expected there)
\* up to and including the closing bracket; a trailing comma is allowed.
ParseElems(s, i, acc) ==
  LET Fail == [ok |-> FALSE, val |-> PyList(<<>>), next |-> i]
      Done(l, n) == [ok |-> TRUE, val |-> PyList(l), next |-> n]
      AfterComma(l, k2) ==
        IF At(s, k2) = "]" THEN Done(l, k2 + 1) ELSE ParseElems(s, k2, l)
      AfterItem(l, k) ==
        IF At(s, k) = "]" THEN Done(l, k + 1)
        ELSE IF At(s, k) = "," THEN AfterComma(l, SkipWs(s, k + 1))
        ELSE Fail
      Item(it) ==
        IF ~it.ok THEN Fail ELSE AfterItem(Append(acc, it.val), SkipWs(s, it.next))
  IN  Item(ParseItem(s, i))

\* A list display that starts at index i (s[i] = "[").
ParseList(s, i) ==
  LET j == SkipWs(s, i + 1)
  IN  IF At(s, j) = "]"
      THEN [ok |-> TRUE, val |-> PyList(<<>>), next |-> j + 1]
      ELSE ParseElems(s, j, <<>>)

SyntaxError == Raise("SyntaxError", "SyntaxError", "invalid syntax", <<>>)

\* eval(newvalue, {}, {}) for a text that starts with '['.  Exact on list
\* displays of string and integer literals, optionally followed by one
\* subscript [n]; every other text is a SyntaxError here, and the inputs of the
\* model are chosen where that is what Python answers.
PyEval(s) ==
  LET Subscript(l, sub) ==
        IF sub.ok /\ SkipWs(s, sub.next) > Len(s)
           /\ Len(sub.val.v) = 1 /\ sub.val.v[1].t = "int"
        THEN IF sub.val.v[1].v < Len(l.val.v)
             THEN Return(l.val.v[sub.val.v[1].v + 1])
             ELSE Raise("IndexError", "IndexError", "list index out of range", <<>>)
        ELSE SyntaxError
      Rest(l, k) ==
        IF k > Len(s) THEN Return(l.val)
        ELSE IF At(s, k) = "[" THEN Subscript(l, ParseList(s, k))
        ELSE SyntaxError
      Display(l) == IF ~l.ok THEN SyntaxError ELSE Rest(l, SkipWs(s, l.next))
  IN  Display(ParseList(s, 1))

\* ------------------------------------------------------------ option variants

\* An option object: kind is its class, value its value attribute.
Unset == [t |-> "unset", v |-> 0]

\* UserOption.__init__: name and choices are set, value is set by the subclass.
UserOption(kind, name, choices) ==
  [kind |-> kind, name |-> name, choices |-> choices, value |-> Unset]

\* UserStringOption.set_value
UserStringOption_set_value(self, newvalue) ==
  IF ~IsStr(newvalue)
  THEN Raised(self, Raise("MesonException", "NotAString",
                          "Value \"%s\" for string option \"%s\" is not a string.",
                          <<newvalue, self.name>>))
  ELSE Returned([self EXCEPT !.value = newvalue])

\* tobool comparing the text as written, without lower().
tobool_as_written(thing) ==
  IF IsBool(thing) THEN Return(thing)
  ELSE IF ~IsStr(thing)
  THEN Raise("AttributeError", "AttributeError", "object has no attribute 'lower'", <<thing>>)
  ELSE IF thing.v = <<"t", "r", "u", "e">> THEN Return(PyBool(TRUE))
  ELSE IF thing.v = <<"f", "a", "l", "s", "e">> THEN Return(PyBool(FALSE))
  ELSE Raise("MesonException", "InvalidBoolean",
             "Value %s is not boolean (true or false).", <<thing>>)

\* UserBooleanOption.tobool
tobool(thing) ==
  IF IsBool(thing) THEN Return(thing)
  ELSE IF ~IsStr(thing)
  THEN Raise("AttributeError", "AttributeError", "object has no attribute 'lower'", <<thing>>)
  ELSE IF lower(thing.v) = <<"t", "r", "u", "e">> THEN Return(PyBool(TRUE))
  ELSE IF lower(thing.v) = <<"f", "a", "l", "s", "e">> THEN Return(PyBool(FALSE))
  ELSE Raise("MesonException", "InvalidBoolean",
             "Value %s is not boolean (true or false).", <<thing>>)

\* set_value storing what it was given, without tobool.
UserBooleanOption_set_value_unconverted(self, newvalue) ==
  Returned([self EXCEPT !.value = newvalue])

\* UserBooleanOption.set_value
UserBooleanOption_set_value(self, newvalue) ==
  LET Assign(b) == IF b.ok THEN Returned([self EXCEPT !.value = b.val]) ELSE Raised(self, b)
  IN  Assign(tobool(newvalue))

\* UserBooleanOption.parse_string
parse_string(self, valuestring) ==
  IF IsStr(valuestring) /\ valuestring.v = <<"f", "a", "l", "s", "e">> THEN Return(PyBool(FALSE))
  ELSE IF IsStr(valuestring) /\ valuestring.v = <<"t", "r", "u", "e">> THEN Return(PyBool(TRUE))
  ELSE Raise("MesonException", "InvalidBoolean",
             "Value \"%s\" for boolean option \"%s\" is not a boolean.",
             <<valuestring, self.name>>)

\* newvalue in self.choices, for a list of strings
InChoices(newvalue, choices) ==
  IsStr(newvalue) /\ \E i \in 1..Len(choices) : choices[i] = newvalue.v

\* The choices joined without the quotes around each.
optionsstring_unquoted(choices) ==
  join(<<",", " ">>, choices)

\* ', '.join(['"%s"' % (item,) for item in self.choices])
optionsstring(choices) ==
  join(<<",", " ">>, [i \in 1..Len(choices) |-> Quoted(choices[i])])

\* UserComboOption.set_value
UserComboOption_set_value(self, newvalue) ==
  IF ~InChoices(newvalue, self.choices)
  THEN Raised(self, Raise("MesonException", "InvalidChoice",
                          "Value \"%s\" for combo option \"%s\" is not one of the choices. Possible choices are: %s.",
                          <<newvalue, self.name, optionsstring(self.choices)>>))
  ELSE Returned([self EXCEPT !.value = newvalue])

\* The checks of UserStringArrayOption.set_value on the value after eval.
CheckStringArray(self, newvalue) ==
  IF ~IsList(newvalue)
  THEN Raised(self, Raise("MesonException", "NotAnArray",
                          "String array value is not an array.", <<>>))
  ELSE IF \E i \in 1..Len(newvalue.v) : ~IsStr(newvalue.v[i])
  THEN Raised(self, Raise("MesonException", "NonStringElement",
                          "String array element not a string.", <<>>))
  ELSE Returned([self EXCEPT !.value = newvalue])

\* UserStringArrayOption.set_value
UserStringArrayOption_set_value(self, newvalue) ==
  IF IsStr(newvalue)
  THEN IF ~startswith(newvalue.v, <<"[">>)
       THEN Raised(self, Raise("MesonException", "MalformedArray",
                               "Valuestring does not define an array: %s", <<newvalue>>))
       ELSE LET Check(e) == IF e.ok THEN CheckStringArray(self, e.val) ELSE Raised(self, e)
            IN  Check(PyEval(newvalue.v))
  ELSE CheckStringArray(self, newvalue)

\* tgt.set_value(v): the method of the option's class.
set_value(self, newvalue) ==
  CASE self.kind = "string"  -> UserStringOption_set_value(self, newvalue)
    [] self.kind = "boolean" -> UserBooleanOption_set_value(self, newvalue)
    [] self.kind = "combo"   -> UserComboOption_set_value(self, newvalue)
    [] self.kind = "array"   -> UserStringArrayOption_set_value(self, newvalue)

\* The constructors: each ends with self.set_value(value), so an object exists
\* only if its first value validates.
UserStringOption_init(name, value) == set_value(UserOption("string", name, <<>>), value)

UserBooleanOption_init(name, value) ==
  set_value(UserOption("boolean", name, << <<"t", "r", "u", "e">>, <<"f", "a", "l", "s", "e">> >>), value)

\* choices is a list of strings here, so the two checks of the constructor pass.
UserComboOption_init(name, choices, value) == set_value(UserOption("combo", name, choices), value)

UserStringArrayOption_init(name, value) == set_value(UserOption("array", name, <<>>), value)

\* The validation predicate of each kind on a stored value.
ValidValue(o) ==
  CASE o.kind = "string"  -> IsStr(o.value)
    [] o.kind = "boolean" -> IsBool(o.value)
    [] o.kind = "combo"   -> InChoices(o.value, o.choices)
    [] o.kind = "array"   -> IsList(o.value) /\ \A i \in 1..Len(o.value.v) : IsStr(o.value.v[i])

\* ------------------------------------------------------------ option store

\* coredata.version of the running tool.
version == "0.26.0"

\* A version an older tool wrote into a snapshot.
OldVersion == "0.25.0"

\* build_types, layouts, warning_levels, libtypelist of the tool.
build_types == << <<"p", "l", "a", "i", "n">>, <<"d", "e", "b", "u", "g">>, <<"d", "e", "b", "u", "g", "o", "p", "t", "i", "m", "i", "z", "e", "d">>, <<"r", "e", "l", "e", "a", "s", "e">> >>

layouts == << <<"m", "i", "r", "r", "o", "r">>, <<"f", "l", "a", "t">> >>

warning_levels == << <<"1">>, <<"2">>, <<"3">> >>

libtypelist == << <<"s", "h", "a", "r", "e", "d">>, <<"s", "t", "a", "t", "i", "c">> >>

\* The builtin options of the package's coredata, each an option variant.
\* (coredata.py is not part of the sources; the names are those print_conf reads.)
BuiltinOptions ==
  ( <<"b", "u", "i", "l", "d", "t", "y", "p", "e">>       :> UserComboOption_init(<<"b", "u", "i", "l", "d", "t", "y", "p", "e">>, build_types, PyStr(<<"r", "e", "l", "e", "a", "s", "e">>)).self
 @@ <<"w", "a", "r", "n", "i", "n", "g", "_", "l", "e", "v", "e", "l">>   :> UserComboOption_init(<<"w", "a", "r", "n", "i", "n", "g", "_", "l", "e", "v", "e", "l">>, warning_levels, PyStr(<<"1">>)).self
 @@ <<"d", "e", "f", "a", "u", "l", "t", "_", "l", "i", "b", "r", "a", "r", "y">> :> UserComboOption_init(<<"d", "e", "f", "a", "u", "l", "t", "_", "l", "i", "b", "r", "a", "r", "y">>, libtypelist, PyStr(<<"s", "h", "a", "r", "e", "d">>)).self
 @@ <<"w", "e", "r", "r", "o", "r">>          :> UserBooleanOption_init(<<"w", "e", "r", "r", "o", "r">>, PyBool(FALSE)).self
 @@ <<"s", "t", "r", "i", "p">>           :> UserBooleanOption_init(<<"s", "t", "r", "i", "p">>, PyBool(FALSE)).self
 @@ <<"c", "o", "v", "e", "r", "a", "g", "e">>        :> UserBooleanOption_init(<<"c", "o", "v", "e", "r", "a", "g", "e">>, PyBool(FALSE)).self
 @@ <<"u", "s", "e", "_", "p", "c", "h">>         :> UserBooleanOption_init(<<"u", "s", "e", "_", "p", "c", "h">>, PyBool(TRUE)).self
 @@ <<"u", "n", "i", "t", "y">>           :> UserBooleanOption_init(<<"u", "n", "i", "t", "y">>, PyBool(FALSE)).self
 @@ <<"p", "r", "e", "f", "i", "x">>          :> UserStringOption_init(<<"p", "r", "e", "f", "i", "x">>, PyStr(<<"/", "u", "s", "r">>)).self
 @@ <<"l", "i", "b", "d", "i", "r">>          :> UserStringOption_init(<<"l", "i", "b", "d", "i", "r">>, PyStr(<<"l", "i", "b">>)).self
 @@ <<"b", "i", "n", "d", "i", "r">>          :> UserStringOption_init(<<"b", "i", "n", "d", "i", "r">>, PyStr(<<"b", "i", "n">>)).self
 @@ <<"i", "n", "c", "l", "u", "d", "e", "d", "i", "r">>      :> UserStringOption_init(<<"i", "n", "c", "l", "u", "d", "e", "d", "i", "r">>, PyStr(<<"i", "n", "c", "l", "u", "d", "e">>)).self
 @@ <<"d", "a", "t", "a", "d", "i", "r">>         :> UserStringOption_init(<<"d", "a", "t", "a", "d", "i", "r">>, PyStr(<<"s", "h", "a", "r", "e">>)).self
 @@ <<"m", "a", "n", "d", "i", "r">>          :> UserStringOption_init(<<"m", "a", "n", "d", "i", "r">>, PyStr(<<"m", "a", "n">>)).self
 @@ <<"l", "o", "c", "a", "l", "e", "d", "i", "r">>       :> UserStringOption_init(<<"l", "o", "c", "a", "l", "e", "d", "i", "r">>, PyStr(<<"l", "o", "c", "a", "l", "e">>)).self )

\* The attributes the script's coredata keeps its core options in.
CoreAttributes ==
  ( <<"b", "u", "i", "l", "d", "t", "y", "p", "e">>     :> PyStr(<<"r", "e", "l", "e", "a", "s", "e">>)
 @@ <<"l", "a", "y", "o", "u", "t">>        :> PyStr(<<"m", "i", "r", "r", "o", "r">>)
 @@ <<"w", "a", "r", "n", "i", "n", "g", "_", "l", "e", "v", "e", "l">> :> PyStr(<<"1">>)
 @@ <<"s", "t", "r", "i", "p">>         :> PyBool(FALSE)
 @@ <<"c", "o", "v", "e", "r", "a", "g", "e">>      :> PyBool(FALSE)
 @@ <<"u", "s", "e", "_", "p", "c", "h">>       :> PyBool(TRUE)
 @@ <<"u", "n", "i", "t", "y">>         :> PyBool(FALSE)
 @@ <<"p", "r", "e", "f", "i", "x">>        :> PyStr(<<"/", "u", "s", "r">>)
 @@ <<"l", "i", "b", "d", "i", "r">>        :> PyStr(<<"l", "i", "b">>)
 @@ <<"b", "i", "n", "d", "i", "r">>        :> PyStr(<<"b", "i", "n">>)
 @@ <<"i", "n", "c", "l", "u", "d", "e", "d", "i", "r">>    :> PyStr(<<"i", "n", "c", "l", "u", "d", "e">>)
 @@ <<"d", "a", "t", "a", "d", "i", "r">>       :> PyStr(<<"s", "h", "a", "r", "e">>)
 @@ <<"m", "a", "n", "d", "i", "r">>        :> PyStr(<<"m", "a", "n">>)
 @@ <<"l", "o", "c", "a", "l", "e", "d", "i", "r">>     :> PyStr(<<"l", "o", "c", "a", "l", "e">>) )

\* The project's options: a boolean, a combo, an array, and (in the second
\* project) a string option whose name is a language followed by 'args'.
ProjectOptions ==
  ( <<"f", "l", "a", "g">> :> UserBooleanOption_init(<<"f", "l", "a", "g">>, PyBool(TRUE)).self
 @@ <<"m", "o", "d", "e">> :> UserComboOption_init(<<"m", "o", "d", "e">>, << <<"l", "o">>, <<"h", "i">> >>, PyStr(<<"l", "o">>)).self
 @@ <<"a", "r", "r">>  :> UserStringArrayOption_init(<<"a", "r", "r">>, PyList(<< PyStr(<<"x">>) >>)).self )

ProjectOptionsWithArgs ==
  ProjectOptions @@ ( <<"c", "a", "r", "g", "s">> :> UserStringOption_init(<<"c", "a", "r", "g", "s">>, PyStr(<<"v">>)).self )

\* The options of the detected compilers.
CompilerOptions ==
  ( <<"c", "_", "s", "t", "d">> :> UserComboOption_init(<<"c", "_", "s", "t", "d">>, << <<"n", "o", "n", "e">>, <<"c", "9", "9">> >>, PyStr(<<"n", "o", "n", "e">>)).self )

\* external_args and external_link_args: one list per detected language.
ExternalArgs == ( <<"c">> :> << <<"-", "O", "1">> >> @@ <<"c", "p", "p">> :> << <<"-", "W", "a", "l", "l">> >> )

ExternalLinkArgs == ( <<"c">> :> <<>> @@ <<"c", "p", "p">> :> << <<"-", "l", "z">> >> )

\* The coredata object a configured build directory holds, as the package
\* ("mconf") or the script ("mesonconf") pickles it.
CoreData(t, ver, useropts) ==
  [ version            |-> ver,
    builtins           |-> IF t = "mconf" THEN BuiltinOptions ELSE CoreAttributes,
    user_options       |-> useropts,
    compiler_options   |-> CompilerOptions,
    external_args      |-> ExternalArgs,
    external_link_args |-> ExternalLinkArgs ]

\* The build object of build.dat, opaque to the configurator.
BuildData == [environment |-> [source_dir |-> "/src", build_dir |-> "/src/build"]]

\* ------------------------------------------------------------ set_options

\* raise ConfException(...) in a method of Conf that leaves coredata as it is.
ConfException(coredata, kind, fmt, args) ==
  Raised(coredata, Raise("ConfException", kind, fmt, args))

\* os.path.isabs on a POSIX path
isabs(v) == startswith(v, <<"/">>)

\* coredata.is_builtin_option(k) of the package
is_builtin_option(coredata, k) == k \in DOMAIN coredata.builtins

\* coredata.set_builtin_option(k, v) of the package: the builtin's variant validates.
set_builtin_option(coredata, k, v) ==
  LET Store(r) == [r EXCEPT !.self = [coredata EXCEPT !.builtins[k] = r.self]]
  IN  Store(set_value(coredata.builtins[k], PyStr(v)))

\* The value taken whole as the only argument, without split().
newvalue_unsplit(v) == << v >>

\* v.split() as the new argument list of a language
newvalue(v) == split(v)

\* The suffix branches tested before the declared options.
set_declared_or_args_suffix_first(coredata, k, v) ==
  IF endswith(k, <<"l", "i", "n", "k", "a", "r", "g", "s">>)
  THEN LET lang == DropLast(k, 8)
       IN  IF lang \notin DOMAIN coredata.external_link_args
           THEN ConfException(coredata, "UnknownLanguage", "Unknown language %s in linkargs.", <<lang>>)
           ELSE Returned([coredata EXCEPT !.external_link_args[lang] = split(v)])
  ELSE IF endswith(k, <<"a", "r", "g", "s">>)
  THEN LET lang == DropLast(k, 4)
       IN  IF lang \notin DOMAIN coredata.external_args
           THEN ConfException(coredata, "UnknownLanguage", "Unknown language %s in compile args", <<lang>>)
           ELSE Returned([coredata EXCEPT !.external_args[lang] = split(v)])
  ELSE IF k \in DOMAIN coredata.user_options
  THEN LET Store(r) == [r EXCEPT !.self = [coredata EXCEPT !.user_options[k] = r.self]]
       IN  Store(set_value(coredata.user_options[k], PyStr(v)))
  ELSE IF k \in DOMAIN coredata.compiler_options
  THEN LET Store(r) == [r EXCEPT !.self = [coredata EXCEPT !.compiler_options[k] = r.self]]
       IN  Store(set_value(coredata.compiler_options[k], PyStr(v)))
  ELSE ConfException(coredata, "UnknownOption", "Unknown option %s.", <<k>>)

\* The branches both configurators share, after the builtin options: a declared
\* user option, a declared compiler option, <lang>linkargs, <lang>args.
set_declared_or_args(coredata, k, v) ==
  IF k \in DOMAIN coredata.user_options
  THEN LET Store(r) == [r EXCEPT !.self = [coredata EXCEPT !.user_options[k] = r.self]]
       IN  Store(set_value(coredata.user_options[k], PyStr(v)))
  ELSE IF k \in DOMAIN coredata.compiler_options
  THEN LET Store(r) == [r EXCEPT !.self = [coredata EXCEPT !.compiler_options[k] = r.self]]
       IN  Store(set_value(coredata.compiler_options[k], PyStr(v)))
  ELSE IF endswith(k, <<"l", "i", "n", "k", "a", "r", "g", "s">>)
  THEN LET lang == DropLast(k, 8)
       IN  IF lang \notin DOMAIN coredata.external_link_args
           THEN ConfException(coredata, "UnknownLanguage", "Unknown language %s in linkargs.", <<lang>>)
           ELSE Returned([coredata EXCEPT !.external_link_args[lang] = newvalue(v)])
  ELSE IF endswith(k, <<"a", "r", "g", "s">>)
  THEN LET lang == DropLast(k, 4)
       IN  IF lang \notin DOMAIN coredata.external_args
           THEN ConfException(coredata, "UnknownLanguage", "Unknown language %s in compile args", <<lang>>)
           ELSE Returned([coredata EXCEPT !.external_args[lang] = newvalue(v)])
  ELSE ConfException(coredata, "UnknownOption", "Unknown option %s.", <<k>>)

\* self.tobool(v) in the script: its Conf class defines no tobool method.
Conf_tobool(coredata, v) ==
  Raised(coredata, Raise("AttributeError", "AttributeError",
                         "'Conf' object has no attribute 'tobool'", <<>>))

\* A core option of the script that must be one of a list.
set_one_of(coredata, attr, v, allowed, fmt) ==
  IF ~InChoices(PyStr(v), allowed)
  THEN ConfException(coredata, "InvalidChoice", fmt, <<v>>)
  ELSE Returned([coredata EXCEPT !.builtins[attr] = PyStr(v)])

\* An install directory of the script, which must not be an absolute path.
set_reldir(coredata, attr, v, fmt) ==
  IF isabs(v)
  THEN ConfException(coredata, "InvalidPath", fmt, <<v>>)
  ELSE Returned([coredata EXCEPT !.builtins[attr] = PyStr(v)])

\* The keys the script handles itself, before the declared options.
ScriptKeys ==
  { <<"b", "u", "i", "l", "d", "t", "y", "p", "e">>, <<"l", "a", "y", "o", "u", "t">>, <<"w", "a", "r", "n", "l", "e", "v", "e", "l">>, <<"s", "t", "r", "i", "p">>, <<"c", "o", "v", "e", "r", "a", "g", "e">>, <<"p", "c", "h">>, <<"u", "n", "i", "t", "y">>,
    <<"p", "r", "e", "f", "i", "x">>, <<"l", "i", "b", "d", "i", "r">>, <<"b", "i", "n", "d", "i", "r">>, <<"i", "n", "c", "l", "u", "d", "e", "d", "i", "r">>, <<"d", "a", "t", "a", "d", "i", "r">>, <<"m", "a", "n", "d", "i", "r">>, <<"l", "o", "c", "a", "l", "e", "d", "i", "r">> }

\* One iteration of the loop of the script's Conf.set_options, after the split.
mesonconf_set(coredata, k, v) ==
  CASE k = <<"b", "u", "i", "l", "d", "t", "y", "p", "e">> -> set_one_of(coredata, <<"b", "u", "i", "l", "d", "t", "y", "p", "e">>, v, build_types, "Invalid build type %s.")
    [] k = <<"l", "a", "y", "o", "u", "t">>    -> set_one_of(coredata, <<"l", "a", "y", "o", "u", "t">>, v, layouts, "Invalid layout type %s.")
    [] k = <<"w", "a", "r", "n", "l", "e", "v", "e", "l">> -> set_one_of(coredata, <<"w", "a", "r", "n", "i", "n", "g", "_", "l", "e", "v", "e", "l">>, v, warning_levels, "Invalid warning level %s.")
    [] k \in { <<"s", "t", "r", "i", "p">>, <<"c", "o", "v", "e", "r", "a", "g", "e">>, <<"p", "c", "h">>, <<"u", "n", "i", "t", "y">> } -> Conf_tobool(coredata, v)
    [] k = <<"p", "r", "e", "f", "i", "x">> ->
         IF ~isabs(v)
         THEN ConfException(coredata, "InvalidPath", "Install prefix %s is not an absolute path.", <<v>>)
         ELSE Returned([coredata EXCEPT !.builtins[<<"p", "r", "e", "f", "i", "x">>] = PyStr(v)])
    [] k = <<"l", "i", "b", "d", "i", "r">>     -> set_reldir(coredata, <<"l", "i", "b", "d", "i", "r">>, v, "Library dir %s must not be an absolute path.")
    [] k = <<"b", "i", "n", "d", "i", "r">>     -> set_reldir(coredata, <<"b", "i", "n", "d", "i", "r">>, v, "Binary dir %s must not be an absolute path.")
    [] k = <<"i", "n", "c", "l", "u", "d", "e", "d", "i", "r">> -> set_reldir(coredata, <<"i", "n", "c", "l", "u", "d", "e", "d", "i", "r">>, v, "Include dir %s must not be an absolute path.")
    [] k = <<"d", "a", "t", "a", "d", "i", "r">>    -> set_reldir(coredata, <<"d", "a", "t", "a", "d", "i", "r">>, v, "Data dir %s must not be an absolute path.")
    [] k = <<"m", "a", "n", "d", "i", "r">>     -> set_reldir(coredata, <<"m", "a", "n", "d", "i", "r">>, v, "Man dir %s must not be an absolute path.")
    [] k = <<"l", "o", "c", "a", "l", "e", "d", "i", "r">>  -> set_reldir(coredata, <<"l", "o", "c", "a", "l", "e", "d", "i", "r">>, v, "Locale dir %s must not be an absolute path.")
    [] OTHER -> set_declared_or_args(coredata, k, v)

\* One iteration of the loop of the package's Conf.set_options, after the split.
mconf_set(coredata, k, v) ==
  IF is_builtin_option(coredata, k)
  THEN set_builtin_option(coredata, k, v)
  ELSE set_declared_or_args(coredata, k, v)

\* One iteration of the loop of Conf.set_options on the entry o.
set_option(t, coredata, o) ==
  IF ~Contains(o, "=")
  THEN ConfException(coredata, "MalformedAssignment", "Value \"%s\" not of type \"a=b\".", <<o>>)
  ELSE LET Dispatch(k, v) ==
             IF t = "mconf" THEN mconf_set(coredata, k, v) ELSE mesonconf_set(coredata, k, v)
       IN  Dispatch(split_eq(o)[1], split_eq(o)[2])

RECURSIVE set_options(_, _, _)
\* Conf.set_options as one call: the entries are applied in list order to the
\* store each leaves, and the first exception ends the loop.
set_options(t, coredata, options) ==
  IF options = <<>> THEN Returned(coredata)
  ELSE LET Rest(r) == IF r.ok THEN set_options(t, r.self, Tail(options)) ELSE r
       IN  Rest(set_option(t, coredata, Head(options)))

\* ------------------------------------------------------------ state

VARIABLES
  tool,           \* "mconf": the package's run(); "mesonconf": the script's __main__
  coredata_file,  \* meson-private/coredata.dat: [present, data]
  build_file,     \* meson-private/build.dat: [present, data]
  pc,             \* position of the invocation
  sets,           \* options.sets: the -D entries, in command-line order
  ndirs,          \* len(options.directory)
  idx,            \* index into sets of the entry the loop of set_options is at
  c,              \* the Conf object: [bound, coredata, build]
  exc,            \* the exception in flight or handled
  status,         \* exit status of the process, -1 while it runs
  out,            \* what was printed, in order
  loads,          \* the files unpickled so far, in order
  saves,          \* the files written by pickle.dump so far, in order
  before,         \* the content of coredata_file when the invocation started
  opt,            \* an option object driven directly through its methods
  op,             \* the method last called on opt
  raw,            \* the argument of the last call on opt
  res,            \* the outcome of the last call on opt
  prev,           \* opt before the last call
  confdata,       \* the configuration data of the call: identifier -> value
  arg,            \* the line do_mesondefine / do_replacement was called with
  line,           \* the local `line` of do_replacement
  ret,            \* what the line function returned
  src,            \* the template file: [content, mode]
  dst,            \* the destination file: [present, content, mode, mtime]
  dst_tmp,        \* the file dst + '~': [present, content, mode, mtime]
  data,           \* the lines read from src
  result,         \* the rendered lines so far
  li,             \* index into data of the line the loop of do_conf_file is at
  clock,          \* the time of the filesystem, one tick per call
  match,          \* the local `match` of do_replacement: [found, group1]
  last            \* the previous call of do_conf_file: what it was given and how it left dst

vars == << tool, coredata_file, build_file, pc, sets, ndirs, idx, c, exc, status, out,
           loads, saves, before, opt, op, raw, res, prev,
           confdata, arg, line, match, ret, src, dst, dst_tmp, data, result, li, clock, last >>

confvars == << tool, coredata_file, build_file, pc, sets, ndirs, idx, c, exc, status, out,
               loads, saves, before >>

optvars == << opt, op, raw, res, prev >>

tmplvars == << confdata, arg, line, match, ret, src, dst, dst_tmp, data, result, li, clock, last >>

\* What the configurator holds besides the position and the exception.
confrest == << tool, coredata_file, build_file, sets, ndirs, idx, c, status, out,
               loads, saves, before >>

\* ------------------------------------------------------------ inputs

\* The -D entries an invocation draws from.
Entries ==
  { <<"w", "e", "r", "r", "o", "r", "=", "t", "r", "u", "e">>, <<"b", "u", "i", "l", "d", "t", "y", "p", "e", "=", "d", "e", "b", "u", "g">>, <<"b", "o", "g", "u", "s">>, <<"c", "a", "r", "g", "s", "=", "-", "O", "2", " ", "-", "g">>, <<"c", "l", "i", "n", "k", "a", "r", "g", "s", "=", "-", "l", "m">>,
    <<"g", "h", "o", "s", "t", "l", "a", "n", "g", "_", "a", "r", "g", "s", "=", "-", "O", "2">>, <<"g", "h", "o", "s", "t", "l", "i", "n", "k", "a", "r", "g", "s", "=", "-", "l", "m">>, <<"c", "p", "p", "a", "r", "g", "s", "=">>, <<"c", "p", "p", "a", "r", "g", "s", "=", "-", "D", "X", "=", "1">>,
    <<"f", "l", "a", "g", "=", "m", "a", "y", "b", "e">>, <<"f", "l", "a", "g", "=", "F", "A", "L", "S", "E">>, <<"m", "o", "d", "e", "=", "h", "i">>, <<"m", "o", "d", "e", "=", "z", "z">>,
    <<"a", "r", "r", "=", "[", "'", "a", "'", ",", " ", "'", "b", "'", "]">>, <<"a", "r", "r", "=", "a", ",", "b">>, <<"a", "r", "r", "=", "[", "1", "]">>, <<"c", "_", "s", "t", "d", "=", "c", "9", "9">>, <<"n", "o", "p", "e", "=", "1">>,
    <<"s", "t", "r", "i", "p", "=", "t", "r", "u", "e">>, <<"b", "u", "i", "l", "d", "t", "y", "p", "e", "=", "f", "a", "s", "t">>, <<"l", "i", "b", "d", "i", "r", "=", "/", "l", "i", "b">> }

RECURSIVE SeqsUpTo(_, _)
\* The sequences over S of length at most n.
SeqsUpTo(S, n) ==
  IF n = 0 THEN { <<>> }
  ELSE LET shorter == SeqsUpTo(S, n - 1)
       IN  shorter \cup { Append(s, x) : s \in shorter, x \in S }

NoFile == [present |-> FALSE]

NoConf == [bound |-> FALSE]

NoOpt == [kind |-> "", name |-> <<>>, choices |-> <<>>, value |-> Unset]

NoRes == [ok |-> TRUE, self |-> NoOpt, exc |-> NoExc]

\* A printed line of fixed text.
Text(s) == [fmt |-> s, args |-> <<>>]

\* print(e): the message of the exception.
Message(e) == [fmt |-> e.fmt, args |-> e.args]

LeadIn == Text("Meson configurator encountered an error:\n")

\* No template is being rendered.
NoTemplate ==
  /\ confdata = << >>
  /\ arg = << >>
  /\ line = << >>
  /\ match = [found |-> FALSE]
  /\ ret = << >>
  /\ src = NoFile
  /\ dst = NoFile
  /\ dst_tmp = NoFile
  /\ data = << >>
  /\ result = << >>
  /\ li = 1
  /\ clock = 0
  /\ last = NoFile

\* ------------------------------------------------------------ the configurator

\* The build directories an invocation may find: configured by the running
\* tool (for either project), configured by an older tool, or lacking a file.
Init ==
  /\ tool \in {"mconf", "mesonconf"}
  /\ \E ver \in {version, OldVersion}, uo \in {ProjectOptions, ProjectOptionsWithArgs},
        cp \in BOOLEAN, bp \in BOOLEAN :
       /\ ver = OldVersion => uo = ProjectOptions
       /\ ~cp => (ver = version /\ uo = ProjectOptions)
       /\ ~bp => (ver = version /\ uo = ProjectOptions)
       /\ coredata_file = IF cp THEN [present |-> TRUE, data |-> CoreData(tool, ver, uo)]
                          ELSE NoFile
       /\ build_file = IF bp THEN [present |-> TRUE, data |-> BuildData] ELSE NoFile
  /\ pc = "start"
  /\ sets = <<>>
  /\ ndirs = 0
  /\ idx = 1
  /\ c = NoConf
  /\ exc = NoExc
  /\ status = -1
  /\ out = <<>>
  /\ loads = <<>>
  /\ saves = <<>>
  /\ before = coredata_file
  /\ NoTemplate
  /\ opt = NoOpt
  /\ op = ""
  /\ raw = Unset
  /\ res = NoRes
  /\ prev = NoOpt

\* parser.parse_args and the check of the positional arguments: more than one
\* directory prints the two usage lines and exits with status 1.
ParseArgs ==
  /\ pc = "start"
  /\ \E s \in SeqsUpTo(Entries, MaxSets), n \in 0..2 :
       /\ sets' = s
       /\ ndirs' = n
       /\ IF n > 1
          THEN /\ out' = << Text("%s <build directory>"),
                            Text("If you omit the build directory, the current directory is substituted.") >>
               /\ status' = 1
               /\ pc' = "exit"
          ELSE /\ pc' = "Conf"
               /\ UNCHANGED << out, status >>
  /\ UNCHANGED << tool, coredata_file, build_file, idx, c, exc, loads, saves, before >>
  /\ UNCHANGED optvars
  /\ UNCHANGED tmplvars

\* __init__ without the comparison of versions.
Conf_init_any_version ==
  /\ pc = "Conf"
  /\ IF ~coredata_file.present \/ ~build_file.present
     THEN /\ exc' = Raise("ConfException", "NotAConfiguredDirectory",
                          "Directory %s does not seem to be a Meson build directory.",
                          <<"builddir">>).exc
          /\ pc' = "raised"
          /\ UNCHANGED << c, loads >>
     ELSE /\ loads' = loads \o << "coredata.dat", "build.dat" >>
          /\ c' = [bound |-> TRUE, coredata |-> coredata_file.data,
                   build |-> build_file.data]
          /\ pc' = IF Len(sets) > 0 THEN "set_options" ELSE "print_conf"
          /\ UNCHANGED exc
  /\ UNCHANGED << tool, coredata_file, build_file, sets, ndirs, idx, status, out, saves, before >>
  /\ UNCHANGED optvars
  /\ UNCHANGED tmplvars

\* Conf.__init__: both files must exist, then both are unpickled, then the
\* version of the option snapshot must be the tool's.
Conf_init ==
  /\ pc = "Conf"
  /\ IF ~coredata_file.present \/ ~build_file.present
     THEN /\ exc' = Raise("ConfException", "NotAConfiguredDirectory",
                          "Directory %s does not seem to be a Meson build directory.",
                          <<"builddir">>).exc
          /\ pc' = "raised"
          /\ UNCHANGED << c, loads >>
     ELSE /\ loads' = loads \o << "coredata.dat", "build.dat" >>
          /\ IF coredata_file.data.version # version
             THEN /\ exc' = Raise("ConfException", "VersionMismatch", "Version mismatch (%s vs %s)",
                                  <<version, coredata_file.data.version>>).exc
                  /\ pc' = "raised"
                  /\ UNCHANGED c
             ELSE /\ c' = [bound |-> TRUE, coredata |-> coredata_file.data,
                           build |-> build_file.data]
                  /\ pc' = IF Len(sets) > 0 THEN "set_options" ELSE "print_conf"
                  /\ UNCHANGED exc
  /\ UNCHANGED << tool, coredata_file, build_file, sets, ndirs, idx, status, out, saves, before >>
  /\ UNCHANGED optvars
  /\ UNCHANGED tmplvars

\* The loop running over the options from the last to the first.
Entry_reversed(i) == sets[Len(sets) + 1 - i]

\* The entry the loop of set_options handles at index i.
Entry(i) == sets[i]

\* The loop skipping an entry that fails and going on to the next.
Conf_set_options_skipping ==
  /\ pc = "set_options"
  /\ LET Step(r) ==
           /\ c' = [c EXCEPT !.coredata = r.self]
           /\ idx' = idx + 1
           /\ pc' = IF idx = Len(sets) THEN "save" ELSE "set_options"
           /\ UNCHANGED exc
     IN  Step(set_option(tool, c.coredata, Entry(idx)))
  /\ UNCHANGED << tool, coredata_file, build_file, sets, ndirs, status, out, loads, saves, before >>
  /\ UNCHANGED optvars
  /\ UNCHANGED tmplvars

\* Conf.set_options: one iteration of `for o in options`; an exception leaves
\* the loop, the last iteration returns to the caller, which saves.
Conf_set_options ==
  /\ pc = "set_options"
  /\ LET Step(r) ==
           /\ c' = [c EXCEPT !.coredata = r.self]
           /\ IF r.ok
              THEN /\ idx' = idx + 1
                   /\ pc' = IF idx = Len(sets) THEN "save" ELSE "set_options"
                   /\ UNCHANGED exc
              ELSE /\ exc' = r.exc
                   /\ pc' = "raised"
                   /\ UNCHANGED idx
     IN  Step(set_option(tool, c.coredata, Entry(idx)))
  /\ UNCHANGED << tool, coredata_file, build_file, sets, ndirs, status, out, loads, saves, before >>
  /\ UNCHANGED optvars
  /\ UNCHANGED tmplvars

\* save writing the build description as well.
save_both(conf) ==
  << [file |-> "coredata.dat", data |-> conf.coredata],
     [file |-> "build.dat", data |-> conf.build] >>

\* Conf.save: the files it opens for writing and what pickle.dump puts there,
\* in order.  The build description is not among them.
save(conf) == << [file |-> "coredata.dat", data |-> conf.coredata] >>

\* A file after the writes w: the last write to it, if any, is its content.
AfterWrites(name, f, w) ==
  IF \E i \in 1..Len(w) : w[i].file = name
  THEN [present |-> TRUE,
        data |-> w[CHOOSE i \in 1..Len(w) :
                     w[i].file = name /\ \A j \in (i + 1)..Len(w) : w[j].file # name].data]
  ELSE f

\* c.save(), then the normal end of the invocation.
Conf_save ==
  /\ pc = "save"
  /\ coredata_file' = AfterWrites("coredata.dat", coredata_file, save(c))
  /\ build_file' = AfterWrites("build.dat", build_file, save(c))
  /\ saves' = saves \o [i \in 1..Len(save(c)) |-> save(c)[i].file]
  /\ status' = 0
  /\ pc' = "exit"
  /\ UNCHANGED << tool, sets, ndirs, idx, c, exc, out, loads, before >>
  /\ UNCHANGED optvars
  /\ UNCHANGED tmplvars

\* Conf.print_conf, then the normal end of the invocation.
Conf_print_conf ==
  /\ pc = "print_conf"
  /\ out' = Append(out, [fmt |-> "print_conf", args |-> <<c.coredata, c.build>>])
  /\ status' = 0
  /\ pc' = "exit"
  /\ UNCHANGED << tool, coredata_file, build_file, sets, ndirs, idx, c, exc, loads, saves, before >>
  /\ UNCHANGED optvars
  /\ UNCHANGED tmplvars

\* except ConfException as e: does the clause catch an exception of class cls?
\* MesonException is the base class of the package's ConfException, not a subclass.
Catches(cls) == cls = "ConfException"

\* The exit status after the except clause ran: run() returns 1, which
\* sys.exit passes on; the script's clause ends without setting a status.
StatusAfterExcept(t) == IF t = "mconf" THEN 1 ELSE 0

\* The except clause of the top-level handler.
ExceptConfException ==
  /\ pc = "raised"
  /\ Catches(exc.cls)
  /\ out' = out \o << LeadIn, Message(exc) >>
  /\ status' = StatusAfterExcept(tool)
  /\ pc' = "exit"
  /\ UNCHANGED << tool, coredata_file, build_file, sets, ndirs, idx, c, exc, loads, saves, before >>
  /\ UNCHANGED optvars
  /\ UNCHANGED tmplvars

\* An exception the clause does not catch ends the interpreter: traceback, status 1.
Uncaught ==
  /\ pc = "raised"
  /\ ~Catches(exc.cls)
  /\ out' = Append(out, [fmt |-> "Traceback (most recent call last):", args |-> <<exc.cls>>])
  /\ status' = 1
  /\ pc' = "exit"
  /\ UNCHANGED << tool, coredata_file, build_file, sets, ndirs, idx, c, exc, loads, saves, before >>
  /\ UNCHANGED optvars
  /\ UNCHANGED tmplvars

Next ==
  \/ ParseArgs
  \/ Conf_init
  \/ Conf_set_options
  \/ Conf_save
  \/ Conf_print_conf
  \/ ExceptConfException
  \/ Uncaught

Spec == Init /\ [][Next]_vars

\* ------------------------------------------------------------ options driven directly

\* The values a caller may hand to set_value or parse_string: command-line
\* texts and native values.
RawStrings ==
  { <<"t", "r", "u", "e">>, <<"T", "r", "u", "e">>, <<"T", "R", "U", "E">>, <<"f", "a", "l", "s", "e">>, <<"F", "a", "l", "s", "e">>, <<"F", "A", "L", "S", "E">>, <<"t", "R", "u", "E">>, <<"y", "e", "s">>, <<"1">>, <<>>,
    <<"l", "o">>, <<"h", "i">>, <<"H", "i">>, <<"z", "z">>, <<"-", "O", "2", " ", "-", "g">>,
    <<"[", "'", "a", "'", ",", " ", "'", "b", "'", "]">>, <<"[", "]">>, <<"[", "1", "]">>, <<"[", "'", "a", "'", ",", " ", "2", "]">>, <<"a", ",", "b">>, <<"[", "'", "a", "'", "]", "[", "0", "]">>, <<"[">> }

RawValues ==
  { PyStr(s) : s \in RawStrings }
    \cup { PyBool(TRUE), PyBool(FALSE), PyInt(0), PyInt(1) }
    \cup { PyList(<<>>), PyList(<< PyStr(<<"a">>) >>), PyList(<< PyStr(<<"a">>), PyInt(1) >>),
           PyList(<< PyInt(1) >>) }

\* The constructor calls a project may make, valid or not.
Constructions ==
  { UserStringOption_init(<<"n", "a", "m", "e">>, PyStr(<<"v">>)),
    UserStringOption_init(<<"n", "a", "m", "e">>, PyInt(1)),
    UserBooleanOption_init(<<"f", "l", "a", "g">>, PyBool(TRUE)),
    UserBooleanOption_init(<<"f", "l", "a", "g">>, PyStr(<<"f", "a", "l", "s", "e">>)),
    UserBooleanOption_init(<<"f", "l", "a", "g">>, PyStr(<<"n", "o">>)),
    UserComboOption_init(<<"m", "o", "d", "e">>, << <<"l", "o">>, <<"h", "i">> >>, PyStr(<<"l", "o">>)),
    UserComboOption_init(<<"m", "o", "d", "e">>, << <<"h", "i">>, <<"l", "o">>, <<"t", "r", "u", "e">> >>, PyStr(<<"t", "r", "u", "e">>)),
    UserComboOption_init(<<"m", "o", "d", "e">>, << <<"l", "o">>, <<"h", "i">> >>, PyStr(<<"z", "z">>)),
    UserStringArrayOption_init(<<"a", "r", "r">>, PyList(<< PyStr(<<"x">>) >>)),
    UserStringArrayOption_init(<<"a", "r", "r">>, PyStr(<<"[", "'", "a", "'", "]">>)),
    UserStringArrayOption_init(<<"a", "r", "r">>, PyStr(<<"a">>)) }

\* A constructor that raises produces no object.
OptInit ==
  /\ \E r \in Constructions : r.ok /\ opt = r.self
  /\ op = ""
  /\ raw = Unset
  /\ res = NoRes
  /\ prev = opt
  /\ tool = "mconf"
  /\ coredata_file = NoFile
  /\ build_file = NoFile
  /\ pc = "off"
  /\ sets = <<>>
  /\ ndirs = 0
  /\ idx = 1
  /\ c = NoConf
  /\ exc = NoExc
  /\ status = -1
  /\ out = <<>>
  /\ loads = <<>>
  /\ saves = <<>>
  /\ before = NoFile
  /\ NoTemplate

\* A call of set_value on opt: the object is what the method leaves.
Called(name, x, r) ==
  /\ op' = name
  /\ raw' = x
  /\ res' = r
  /\ prev' = opt
  /\ opt' = r.self
  /\ UNCHANGED confvars
  /\ UNCHANGED tmplvars

StringSetValue ==
  /\ opt.kind = "string"
  /\ \E x \in RawValues : Called("set_value", x, UserStringOption_set_value(opt, x))

BooleanSetValue ==
  /\ opt.kind = "boolean"
  /\ \E x \in RawValues : Called("set_value", x, UserBooleanOption_set_value(opt, x))

ComboSetValue ==
  /\ opt.kind = "combo"
  /\ \E x \in RawValues : Called("set_value", x, UserComboOption_set_value(opt, x))

StringArraySetValue ==
  /\ opt.kind = "array"
  /\ \E x \in RawValues : Called("set_value", x, UserStringArrayOption_set_value(opt, x))

\* parse_string returns a value and leaves the object alone.
BooleanParseString ==
  /\ opt.kind = "boolean"
  /\ \E x \in RawValues :
       /\ op' = "parse_string"
       /\ raw' = x
       /\ res' = [ok |-> parse_string(opt, x).ok,
                  self |-> IF parse_string(opt, x).ok
                           THEN [opt EXCEPT !.value = parse_string(opt, x).val] ELSE opt,
                  exc |-> IF parse_string(opt, x).ok THEN NoExc ELSE parse_string(opt, x).exc]
       /\ prev' = opt
       /\ UNCHANGED opt
       /\ UNCHANGED confvars
       /\ UNCHANGED tmplvars

OptNext ==
  \/ StringSetValue
  \/ BooleanSetValue
  \/ ComboSetValue
  \/ StringArraySetValue
  \/ BooleanParseString

OptSpec == OptInit /\ [][OptNext]_vars

\* ------------------------------------------------------------ claims

\* The invocation got as far as a Conf object: at most one directory, both
\* files present, the snapshot of the tool's version.
Loadable ==
  /\ ndirs <= 1
  /\ before.present
  /\ build_file.present
  /\ before.data.version = version

\* Every entry of the batch applies to the store the snapshot holds.
BatchApplies == Loadable /\ Len(sets) > 0 /\ set_options(tool, before.data, sets).ok

\* C1: the option snapshot file is overwritten if and only if at least one
\* assignment was given and every assignment of the batch applied: it is written
\* at most once, a finished invocation has written it exactly when the batch
\* applied (then it holds the store the batch produced), and as long as save has
\* not run, and so whenever an entry failed or no assignment was given, the file
\* is what it was before the invocation.
C1_SaveIffBatchApplied ==
  /\ Len(saves) <= 1
  /\ saves = <<>> => coredata_file = before
  /\ pc = "exit" => ((saves # <<>>) <=> BatchApplies)
  /\ pc = "exit" /\ Len(sets) = 0 => saves = <<>>
  /\ saves # <<>> =>
       coredata_file = [present |-> TRUE, data |-> set_options(tool, before.data, sets).self]

\* A batch whose second entry failed after the first changed the store in
\* memory: the process ended, nothing was saved, the file is as before.
C1_Witness ==
  /\ pc = "exit"
  /\ Len(sets) = 2
  /\ idx = 2
  /\ exc.kind = "InvalidChoice"
  /\ c.bound
  /\ c.coredata # before.data
  /\ saves = <<>>
  /\ coredata_file = before

\* The failures of the error taxonomy that loading, assigning and saving raise.
NamedFailures ==
  { "NotAConfiguredDirectory", "VersionMismatch", "MalformedAssignment", "UnknownOption",
    "UnknownLanguage", "InvalidBoolean", "InvalidChoice", "MalformedArray", "NonStringElement" }

\* C2: every named failure is caught by the top-level handler, which prints the
\* lead-in line and then the message and ends the process with status 1; a run
\* without failure ends with status 0.
C2_FailuresCaughtStatus1 ==
  pc = "exit" /\ ndirs <= 1 =>
    /\ exc.kind \in NamedFailures =>
         /\ Catches(exc.cls)
         /\ out = << LeadIn, Message(exc) >>
         /\ status = 1
    /\ exc = NoExc => status = 0

\* C3: after any sequence of set_value calls on a constructed option the stored
\* value satisfies the validation predicate of the option's kind, and a
\* set_value call that raised left the option as it was.
C3_ValueAlwaysValid ==
  /\ ValidValue(opt)
  /\ op = "set_value" /\ ~res.ok => opt = prev

\* A text that is no list was refused by an array option holding a valid list.
C3_Witness ==
  /\ op = "set_value"
  /\ opt.kind = "array"
  /\ IsStr(raw)
  /\ ~res.ok
  /\ res.exc.kind = "NonStringElement"
  /\ opt.value = PyList(<< PyStr(<<"a">>), PyStr(<<"b">>) >>)

\* The five spellings the claim names, with their truth values.
TrueSpellings == { <<"t", "r", "u", "e">>, <<"T", "r", "u", "e">>, <<"T", "R", "U", "E">> }

FalseSpellings == { <<"f", "a", "l", "s", "e">>, <<"F", "a", "l", "s", "e">> }

\* C4 as stated: the five spellings validate to their truth value and every
\* other text is refused with InvalidBoolean.
C4_OnlyFiveSpellings ==
  op = "set_value" /\ prev.kind = "boolean" /\ IsStr(raw) =>
    /\ raw.v \in TrueSpellings => res.ok /\ opt.value = PyBool(TRUE)
    /\ raw.v \in FalseSpellings => res.ok /\ opt.value = PyBool(FALSE)
    /\ raw.v \notin TrueSpellings \cup FalseSpellings =>
         ~res.ok /\ res.exc.kind = "InvalidBoolean"

\* s spells word in some mix of upper and lower case (word is in lower case).
UpperOf(ch) ==
  CASE ch = "t" -> "T" [] ch = "r" -> "R" [] ch = "u" -> "U" [] ch = "e" -> "E"
    [] ch = "f" -> "F" [] ch = "a" -> "A" [] ch = "l" -> "L" [] ch = "s" -> "S"

CaseVariant(s, word) ==
  /\ Len(s) = Len(word)
  /\ \A i \in 1..Len(word) : s[i] \in {word[i], UpperOf(word[i])}

\* C4 as amended: the five spellings validate to their truth value through
\* set_value, and the texts refused with InvalidBoolean are those that spell
\* neither "true" nor "false" in any mix of upper and lower case.
C4_CaseInsensitive ==
  op = "set_value" /\ prev.kind = "boolean" /\ IsStr(raw) =>
    /\ raw.v \in TrueSpellings => res.ok /\ opt.value = PyBool(TRUE)
    /\ raw.v \in FalseSpellings => res.ok /\ opt.value = PyBool(FALSE)
    /\ ~CaseVariant(raw.v, <<"t", "r", "u", "e">>) /\ ~CaseVariant(raw.v, <<"f", "a", "l", "s", "e">>) =>
         ~res.ok /\ res.exc.kind = "InvalidBoolean" /\ opt = prev
    /\ CaseVariant(raw.v, <<"t", "r", "u", "e">>) => res.ok /\ opt.value = PyBool(TRUE)
    /\ CaseVariant(raw.v, <<"f", "a", "l", "s", "e">>) => res.ok /\ opt.value = PyBool(FALSE)

\* "True" was given to an option holding false and validated to true.
C4_Witness ==
  /\ op = "set_value"
  /\ prev.kind = "boolean"
  /\ prev.value = PyBool(FALSE)
  /\ raw = PyStr(<<"T", "r", "u", "e">>)
  /\ res.ok
  /\ opt.value = PyBool(TRUE)

\* The choices of a combo option as its error message must list them.
ListedChoices(choices) ==
  CASE choices = << <<"l", "o">>, <<"h", "i">> >> -> <<"\"", "l", "o", "\"", ",", " ", "\"", "h", "i", "\"">>
    [] choices = << <<"h", "i">>, <<"l", "o">>, <<"t", "r", "u", "e">> >> -> <<"\"", "h", "i", "\"", ",", " ", "\"", "l", "o", "\"", ",", " ", "\"", "t", "r", "u", "e", "\"">>

\* C5: a combo option accepts a value if and only if it is one of the strings of
\* its choice list; a refused value leaves the stored value unchanged and the
\* message lists the choices in declaration order, each in double quotes, joined
\* by comma and space.
C5_ComboMembership ==
  op = "set_value" /\ prev.kind = "combo" =>
    /\ res.ok <=> (IsStr(raw) /\ \E i \in 1..Len(prev.choices) : prev.choices[i] = raw.v)
    /\ res.ok => opt.value = raw
    /\ ~res.ok =>
         /\ opt = prev
         /\ res.exc.kind = "InvalidChoice"
         /\ res.exc.args = << raw, prev.name, ListedChoices(prev.choices) >>

\* A text outside the choices was refused after another choice had been set.
C5_Witness ==
  /\ op = "set_value"
  /\ prev.kind = "combo"
  /\ raw = PyStr(<<"H", "i">>)
  /\ ~res.ok
  /\ opt.value = PyStr(<<"h", "i">>)
  /\ opt.choices = << <<"l", "o">>, <<"h", "i">> >>

\* C6: when either snapshot file is absent the load fails with
\* NotAConfiguredDirectory before anything is unpickled, and when the option
\* snapshot carries another version than the tool's it fails with
\* VersionMismatch; in both cases there is never a Conf object, so no entry is
\* applied, nothing is reported and nothing is saved.
C6_LoadFailures ==
  LET missing  == ~before.present \/ ~build_file.present
      mismatch == ~missing /\ before.data.version # version
  IN  /\ missing \/ mismatch =>
           /\ ~c.bound
           /\ idx = 1
           /\ saves = <<>>
           /\ coredata_file = before
           /\ pc \notin {"set_options", "save", "print_conf"}
           /\ \A i \in 1..Len(out) : out[i].fmt # "print_conf"
      /\ missing => loads = <<>>
      /\ missing /\ ndirs <= 1 /\ pc \in {"raised", "exit"} =>
           exc.cls = "ConfException" /\ exc.kind = "NotAConfiguredDirectory"
      /\ mismatch /\ ndirs <= 1 /\ pc \in {"raised", "exit"} =>
           exc.cls = "ConfException" /\ exc.kind = "VersionMismatch"

\* An invocation with assignments found a snapshot of an older version and ended.
C6_Witness ==
  /\ pc = "exit"
  /\ Len(sets) > 0
  /\ before.present
  /\ build_file.present
  /\ before.data.version = OldVersion
  /\ exc.kind = "VersionMismatch"
  /\ loads = << "coredata.dat", "build.dat" >>

\* C7: no step of an invocation writes the build description: its file keeps
\* its content, and the only file save ever opens for writing is the option
\* snapshot.
C7_BuildFileNeverWritten ==
  [][ /\ build_file' = build_file
      /\ \A i \in 1..Len(saves') : saves'[i] = "coredata.dat" ]_vars

\* A batch was applied and saved: the option snapshot changed on disk.
C7_Witness ==
  /\ pc = "exit"
  /\ saves = << "coredata.dat" >>
  /\ coredata_file # before
  /\ build_file = [present |-> TRUE, data |-> BuildData]

\* The key and the value of an entry that contains '='.
KeyOf(o) == split_eq(o)[1]

ValueOf(o) == split_eq(o)[2]

\* The rule that handles key k, by the order of the claim.
RuleFor(t, coredata, k) ==
  IF (t = "mconf" /\ k \in DOMAIN coredata.builtins) \/ (t = "mesonconf" /\ k \in ScriptKeys)
  THEN "builtin"
  ELSE IF k \in DOMAIN coredata.user_options THEN "user"
  ELSE IF k \in DOMAIN coredata.compiler_options THEN "compiler"
  ELSE IF endswith(k, <<"l", "i", "n", "k", "a", "r", "g", "s">>) THEN "linkargs"
  ELSE IF endswith(k, <<"a", "r", "g", "s">>) THEN "args"
  ELSE "none"

\* The store b differs from the store a at most in the entry rule and k select.
OnlySelectedChanged(rule, k, a, b) ==
  CASE rule = "builtin" ->
         /\ b = [a EXCEPT !.builtins = b.builtins]
         /\ DOMAIN b.builtins = DOMAIN a.builtins
         /\ Cardinality({n \in DOMAIN a.builtins : b.builtins[n] # a.builtins[n]}) <= 1
    [] rule = "user" ->
         b = [a EXCEPT !.user_options[k].value = b.user_options[k].value]
    [] rule = "compiler" ->
         b = [a EXCEPT !.compiler_options[k].value = b.compiler_options[k].value]
    [] rule = "linkargs" ->
         b = [a EXCEPT !.external_link_args[DropLast(k, 8)] = b.external_link_args[DropLast(k, 8)]]
    [] rule = "args" ->
         b = [a EXCEPT !.external_args[DropLast(k, 4)] = b.external_args[DropLast(k, 4)]]
    [] OTHER -> FALSE

\* C8: an assignment is handled by the first matching rule in the order builtin,
\* user option, compiler option, 'linkargs' suffix, 'args' suffix, and when it
\* succeeds only the entry that rule selects may differ.  So a user option
\* named 'cargs' is set through its variant and no argument list changes, and
\* 'clinkargs' sets the link arguments of 'c' and no compile arguments.
C8_FirstRuleOnlySelected ==
  [][ pc = "set_options" /\ Contains(sets[idx], "=") =>
        /\ pc' # "raised" =>
             OnlySelectedChanged(RuleFor(tool, c.coredata, KeyOf(sets[idx])),
                                 KeyOf(sets[idx]), c.coredata, c'.coredata)
        /\ sets[idx] = <<"c", "a", "r", "g", "s", "=", "-", "O", "2", " ", "-", "g">> /\ <<"c", "a", "r", "g", "s">> \in DOMAIN c.coredata.user_options =>
             /\ pc' # "raised"
             /\ c'.coredata.user_options[<<"c", "a", "r", "g", "s">>].value = PyStr(<<"-", "O", "2", " ", "-", "g">>)
             /\ c'.coredata.external_args = c.coredata.external_args
        /\ sets[idx] = <<"c", "l", "i", "n", "k", "a", "r", "g", "s", "=", "-", "l", "m">> =>
             /\ pc' # "raised"
             /\ c'.coredata.external_link_args[<<"c">>] = << <<"-", "l", "m">> >>
             /\ c'.coredata.external_args = c.coredata.external_args ]_vars

\* 'cargs=-O2 -g' was applied in a project that declares an option named cargs:
\* the option holds the text and the compile arguments of 'c' are as before.
C8_Witness ==
  /\ pc = "save"
  /\ sets = << <<"c", "a", "r", "g", "s", "=", "-", "O", "2", " ", "-", "g">> >>
  /\ <<"c", "a", "r", "g", "s">> \in DOMAIN c.coredata.user_options
  /\ c.coredata.user_options[<<"c", "a", "r", "g", "s">>].value = PyStr(<<"-", "O", "2", " ", "-", "g">>)
  /\ c.coredata.external_args[<<"c">>] = << <<"-", "O", "1">> >>

\* C9: for a key that is no builtin, user or compiler option: with the suffix
\* 'linkargs' (else 'args') and a registered language before it, the language's
\* link (compile) argument list becomes the whitespace-split tokens of the
\* value; with an unregistered language the assignment fails with
\* UnknownLanguage; with neither suffix it fails with UnknownOption; a failure
\* leaves the store unchanged.
C9_ArgumentLists ==
  [][ pc = "set_options" /\ Contains(sets[idx], "=") =>
        LET k    == KeyOf(sets[idx])
            v    == ValueOf(sets[idx])
            rule == RuleFor(tool, c.coredata, k)
        IN  /\ rule = "linkargs" /\ DropLast(k, 8) \in DOMAIN c.coredata.external_link_args =>
                 /\ pc' # "raised"
                 /\ c'.coredata = [c.coredata EXCEPT !.external_link_args[DropLast(k, 8)] = split(v)]
            /\ rule = "linkargs" /\ DropLast(k, 8) \notin DOMAIN c.coredata.external_link_args =>
                 pc' = "raised" /\ exc'.kind = "UnknownLanguage" /\ c' = c
            /\ rule = "args" /\ DropLast(k, 4) \in DOMAIN c.coredata.external_args =>
                 /\ pc' # "raised"
                 /\ c'.coredata = [c.coredata EXCEPT !.external_args[DropLast(k, 4)] = split(v)]
            /\ rule = "args" /\ DropLast(k, 4) \notin DOMAIN c.coredata.external_args =>
                 pc' = "raised" /\ exc'.kind = "UnknownLanguage" /\ c' = c
            /\ rule = "none" =>
                 pc' = "raised" /\ exc'.kind = "UnknownOption" /\ c' = c
            /\ rule = "args" /\ sets[idx] = <<"c", "a", "r", "g", "s", "=", "-", "O", "2", " ", "-", "g">> =>
                 c'.coredata.external_args[<<"c">>] = << <<"-", "O", "2">>, <<"-", "g">> >>
            /\ sets[idx] = <<"c", "p", "p", "a", "r", "g", "s", "=">> =>
                 c'.coredata.external_args[<<"c", "p", "p">>] = <<>>
            /\ sets[idx] = <<"c", "p", "p", "a", "r", "g", "s", "=", "-", "D", "X", "=", "1">> =>
                 c'.coredata.external_args[<<"c", "p", "p">>] = << <<"-", "D", "X", "=", "1">> >> ]_vars

\* The compile arguments of 'cpp' were replaced, then an assignment to an
\* unregistered language failed and left them so.
C9_Witness ==
  /\ pc = "raised"
  /\ sets = << <<"c", "p", "p", "a", "r", "g", "s", "=", "-", "D", "X", "=", "1">>, <<"g", "h", "o", "s", "t", "l", "a", "n", "g", "_", "a", "r", "g", "s", "=", "-", "O", "2">> >>
  /\ idx = 2
  /\ exc.kind = "UnknownLanguage"
  /\ c.coredata.external_args[<<"c", "p", "p">>] = << <<"-", "D", "X", "=", "1">> >>
  /\ c.coredata.external_args[<<"c">>] = << <<"-", "O", "1">> >>

\* The store after the entries before position idx were applied one after the
\* other to the store that was loaded.
AppliedSoFar == set_options(tool, before.data, SubSeq(sets, 1, idx - 1))

\* The value the store holds for builtin key n (an option object in the
\* package configurator, a plain attribute in the script).
BuiltinValue(t, coredata, n) ==
  IF t = "mconf" THEN coredata.builtins[n].value ELSE coredata.builtins[n]

\* The entries are applied in list order, each split at its first '=', and the
\* first failing entry ends the batch with the effects of the entries before it.
InListOrder ==
  c.bound /\ Len(sets) > 0 =>
    /\ AppliedSoFar.ok
    /\ c.coredata = AppliedSoFar.self
    /\ exc = NoExc /\ pc \in {"save", "exit"} =>
         /\ idx = Len(sets) + 1
         /\ c.coredata = set_options(tool, before.data, sets).self
    /\ exc # NoExc =>
         /\ idx <= Len(sets)
         /\ ~set_option(tool, c.coredata, sets[idx]).ok
         /\ set_option(tool, c.coredata, sets[idx]).exc = exc
         /\ ~Contains(sets[idx], "=") => exc.kind = "MalformedAssignment"
    /\ sets = << <<"c", "p", "p", "a", "r", "g", "s", "=", "-", "D", "X", "=", "1">>, <<"c", "p", "p", "a", "r", "g", "s", "=">> >> /\ pc = "save" =>
         c.coredata.external_args[<<"c", "p", "p">>] = <<>>
    /\ sets = << <<"c", "p", "p", "a", "r", "g", "s", "=">>, <<"c", "p", "p", "a", "r", "g", "s", "=", "-", "D", "X", "=", "1">> >> /\ pc = "save" =>
         c.coredata.external_args[<<"c", "p", "p">>] = << <<"-", "D", "X", "=", "1">> >>
    /\ sets = << <<"c", "l", "i", "n", "k", "a", "r", "g", "s", "=", "-", "l", "m">>, <<"b", "o", "g", "u", "s">> >> /\ pc = "raised" =>
         /\ exc.kind = "MalformedAssignment"
         /\ c.coredata = [before.data EXCEPT !.external_link_args[<<"c">>] = << <<"-", "l", "m">> >>]

\* The batch of the example.
WerrorThenBuildtype == << <<"w", "e", "r", "r", "o", "r", "=", "t", "r", "u", "e">>, <<"b", "u", "i", "l", "d", "t", "y", "p", "e", "=", "d", "e", "b", "u", "g">> >>

\* The batch of the example was applied whole and both builtin options hold
\* the assigned values.
BothUpdated ==
  /\ exc = NoExc
  /\ <<"w", "e", "r", "r", "o", "r">> \in DOMAIN c.coredata.builtins
  /\ BuiltinValue(tool, c.coredata, <<"w", "e", "r", "r", "o", "r">>) = PyBool(TRUE)
  /\ BuiltinValue(tool, c.coredata, <<"b", "u", "i", "l", "d", "t", "y", "p", "e">>) = PyStr(<<"d", "e", "b", "u", "g">>)

RECURSIVE DecimalDigits(_)
\* The decimal digits of a natural number, most significant first.
DecimalDigits(n) ==
  LET d == CHOOSE ch \in Digits : DigitVal(ch) = n % 10
  IN  IF n < 10 THEN << d >> ELSE Append(DecimalDigits(n \div 10), d)

\* '%d' % v and str(v) for an int
str_int(n) == IF n < 0 THEN << "-" >> \o DecimalDigits(0 - n) ELSE DecimalDigits(n)

\* isinstance(var, int): bool is a subclass of int
isinstance_int(var) == var.t \in {"int", "bool"}

\* str(var) for a var that passed isinstance(var, int)
str(var) ==
  IF IsBool(var) THEN (IF var.v THEN <<"T", "r", "u", "e">> ELSE <<"F", "a", "l", "s", "e">>) ELSE str_int(var.v)

\* line.strip()
strip(s) ==
  LET kept == {i \in 1..Len(s) : ~IsSpace(s[i])}
  IN  IF kept = {} THEN << >>
      ELSE SubSeq(s, CHOOSE i \in kept : \A j \in kept : i <= j,
                     CHOOSE i \in kept : \A j \in kept : i >= j)

\* re.search('@(.*?)@', line): the leftmost '@' that has a later '@' with no
\* newline between them, and the text up to the nearest such '@'.
search(l) ==
  LET closes(i) == {j \in (i + 1)..Len(l) :
                      l[j] = "@" /\ \A k \in (i + 1)..(j - 1) : l[k] # "\n"}
      opens == {i \in 1..Len(l) : l[i] = "@" /\ closes(i) # {}}
      Group(i) == SubSeq(l, i + 1, (CHOOSE j \in closes(i) : \A k \in closes(i) : j <= k) - 1)
  IN  IF opens = {} THEN [found |-> FALSE]
      ELSE [found |-> TRUE, group1 |-> Group(CHOOSE i \in opens : \A k \in opens : i <= k)]

RECURSIVE ReplaceFrom(_, _, _, _, _)
\* str.replace: every non-overlapping occurrence of old, from the left;
\* i is the next index to read and acc the text produced so far.
ReplaceFrom(s, old, new, i, acc) ==
  IF i > Len(s) THEN acc
  ELSE IF i + Len(old) - 1 <= Len(s) /\ SubSeq(s, i, i + Len(old) - 1) = old
  THEN ReplaceFrom(s, old, new, i + Len(old), acc \o new)
  ELSE ReplaceFrom(s, old, new, i + 1, Append(acc, s[i]))

replace(s, old, new) == ReplaceFrom(s, old, new, 1, << >>)

\* confdata.keys() of the configuration data object
confdata_keys(cd) == DOMAIN cd

\* confdata.get(varname) of the configuration data object: the value, or KeyError
confdata_get(cd, varname) ==
  IF varname \in DOMAIN cd THEN Return(cd[varname])
  ELSE Raise("KeyError", "KeyError", "%s", << varname >>)

\* do_mesondefine testing isinstance(v, int) before isinstance(v, bool).
do_mesondefine_int_first(l, cd) ==
  LET Define(varname, v) ==
        IF ~v.ok THEN Return(<<"/", "*", " ", "u", "n", "d", "e", "f", " ">> \o varname \o <<" ", "*", "/", "\n">>)
        ELSE IF isinstance_int(v.val)
        THEN Return(<<"#", "d", "e", "f", "i", "n", "e", " ">> \o varname \o <<" ">>
                      \o (IF IsBool(v.val) THEN (IF v.val.v THEN <<"1">> ELSE <<"0">>)
                          ELSE str_int(v.val.v)) \o <<"\n">>)
        ELSE IF IsStr(v.val)
        THEN Return(<<"#", "d", "e", "f", "i", "n", "e", " ">> \o varname \o <<" ">> \o v.val.v \o <<"\n">>)
        ELSE Raise("MesonException", "UnsupportedDefineType",
                   "#mesondefine argument \"%s\" is of unknown type.", << varname >>)
      Tokens(arr) ==
        IF Len(arr) # 2
        THEN Raise("MesonException", "MalformedDirective",
                   "#mesondefine does not contain exactly two tokens: %s", << strip(l) >>)
        ELSE Define(arr[2], confdata_get(cd, arr[2]))
  IN  Tokens(split(l))

\* do_mesondefine
do_mesondefine(l, cd) ==
  LET Define(varname, v) ==
        IF ~v.ok THEN Return(<<"/", "*", " ", "u", "n", "d", "e", "f", " ">> \o varname \o <<" ", "*", "/", "\n">>)
        ELSE IF IsBool(v.val)
        THEN (IF v.val.v THEN Return(<<"#", "d", "e", "f", "i", "n", "e", " ">> \o varname \o <<"\n">>)
                         ELSE Return(<<"#", "u", "n", "d", "e", "f", " ">> \o varname \o <<"\n">>))
        ELSE IF v.val.t = "int"
        THEN Return(<<"#", "d", "e", "f", "i", "n", "e", " ">> \o varname \o <<" ">> \o str_int(v.val.v) \o <<"\n">>)
        ELSE IF IsStr(v.val)
        THEN Return(<<"#", "d", "e", "f", "i", "n", "e", " ">> \o varname \o <<" ">> \o v.val.v \o <<"\n">>)
        ELSE Raise("MesonException", "UnsupportedDefineType",
                   "#mesondefine argument \"%s\" is of unknown type.", << varname >>)
      Tokens(arr) ==
        IF Len(arr) # 2
        THEN Raise("MesonException", "MalformedDirective",
                   "#mesondefine does not contain exactly two tokens: %s", << strip(l) >>)
        ELSE Define(arr[2], confdata_get(cd, arr[2]))
  IN  Tokens(split(l))

\* do_replacement, lines 194-204: the text that replaces the placeholder of varname
replacement_var(cd, varname) ==
  LET Render(var) ==
        IF IsStr(var) THEN Return(var.v)
        ELSE IF isinstance_int(var) THEN Return(str(var))
        ELSE Raise("RuntimeError", "InternalError",
                   "Tried to replace a variable with something other than a string or int.",
                   << >>)
  IN  IF varname \in confdata_keys(cd) THEN Render(confdata_get(cd, varname).val)
      ELSE Return(<< >>)

filevars == << src, dst, dst_tmp, data, result, li, clock, last >>

\* The lines the two line functions are called with.
Lines ==
  { <<"#", "m", "e", "s", "o", "n", "d", "e", "f", "i", "n", "e", " ", "F", "O", "O", "\n">>, <<"#", "m", "e", "s", "o", "n", "d", "e", "f", "i", "n", "e", "\n">>, <<"#", "m", "e", "s", "o", "n", "d", "e", "f", "i", "n", "e", " ", "F", "O", "O", " ", "B", "A", "R", "\n">>,
    <<" ", " ", "#", "m", "e", "s", "o", "n", "d", "e", "f", "i", "n", "e", " ", " ", " ", "F", "O", "O", " ", " ", "\n">>, <<"@", "N", "A", "M", "E", "@", "-", "@", "C", "O", "U", "N", "T", "@", "\n">>, <<"@", "M", "I", "S", "S", "I", "N", "G", "@", "\n">>, <<"@", "X", "@", " ", "@", "Y", "@", "X", "@", "\n">>,
    <<"@", "A", "@", "\n">>, <<"@", "A", "@", "y", "@", "\n">>, <<"a", "@", "b", "\n">>, <<"<", "@", "F", "O", "O", "@", ">", "\n">>, <<"p", "l", "a", "i", "n", "\n">>, <<"@", "@", "\n">>, <<"@", "C", "O", "U", "N", "T", "@", "@", "C", "O", "U", "N", "T", "@">>,
    <<"@", "B", "@", "\n">> }

\* The configuration data with no entry.
EmptyData == [k \in {} |-> PyInt(0)]

\* The configuration data the calls are given.
Mappings ==
  { EmptyData,
    (<<"F", "O", "O">> :> PyBool(TRUE) @@ <<"N", "A", "M", "E">> :> PyStr(<<"x">>) @@ <<"C", "O", "U", "N", "T">> :> PyInt(3)
       @@ <<"X">> :> PyStr(<<"x">>) @@ <<"Y">> :> PyStr(<<"y">>) @@ <<"A">> :> PyStr(<<"a", " ", "b">>)),
    (<<"F", "O", "O">> :> PyBool(FALSE) @@ <<"A">> :> PyStr(<<"x", "@">>) @@ <<"X">> :> PyStr(<<"x">>)),
    (<<"F", "O", "O">> :> PyInt(0) @@ <<"C", "O", "U", "N", "T">> :> PyInt(0 - 12)),
    (<<"F", "O", "O">> :> PyInt(1) @@ <<"C", "O", "U", "N", "T">> :> PyInt(100)),
    (<<"F", "O", "O">> :> PyInt(0 - 12) @@ <<"N", "A", "M", "E">> :> PyStr(<< >>)),
    (<<"F", "O", "O">> :> PyStr(<<"x", " ", "y">>) @@ <<>> :> PyStr(<<"e">>)),
    (<<"F", "O", "O">> :> PyStr(<< >>) @@ <<"B">> :> PyBool(TRUE)),
    (<<"F", "O", "O">> :> PyList(<< <<"a">> >>) @@ <<"A">> :> PyList(<< >>)),
    (<<"A">> :> PyStr(<<"@", "A", "@">>)),
    (<<"A">> :> PyStr(<<"@", "B", "@">>) @@ <<"B">> :> PyStr(<<"@", "A", "@">>)) }

\* One of the two line functions is about to be called with a line and
\* configuration data.
LineInit ==
  /\ arg \in Lines
  /\ confdata \in Mappings
  /\ pc = "call"
  /\ exc = NoExc
  /\ line = << >>
  /\ match = [found |-> FALSE]
  /\ ret = << >>
  /\ src = NoFile
  /\ dst = NoFile
  /\ dst_tmp = NoFile
  /\ data = << >>
  /\ result = << >>
  /\ li = 1
  /\ clock = 0
  /\ last = NoFile
  /\ tool = "mconf"
  /\ coredata_file = NoFile
  /\ build_file = NoFile
  /\ sets = <<>>
  /\ ndirs = 0
  /\ idx = 1
  /\ c = NoConf
  /\ status = -1
  /\ out = <<>>
  /\ loads = <<>>
  /\ saves = <<>>
  /\ before = NoFile
  /\ opt = NoOpt
  /\ op = ""
  /\ raw = Unset
  /\ res = NoRes
  /\ prev = NoOpt

\* do_mesondefine(arg, confdata)
CallMesondefine ==
  /\ pc = "call"
  /\ LET Outcome(r) ==
           IF r.ok THEN /\ ret' = r.val
                        /\ pc' = "return"
                        /\ UNCHANGED exc
                   ELSE /\ exc' = r.exc
                        /\ pc' = "raise"
                        /\ UNCHANGED ret
     IN  Outcome(do_mesondefine(arg, confdata))
  /\ UNCHANGED << confdata, arg, line, match >>
  /\ UNCHANGED << filevars, confrest, optvars >>

\* do_replacement(regex, arg, confdata) is entered
CallReplacement ==
  /\ pc = "call"
  /\ line' = arg
  /\ pc' = "search"
  /\ UNCHANGED << confdata, arg, match, ret, exc >>
  /\ UNCHANGED << filevars, confrest, optvars >>

\* match = re.search(regex, line), before the loop and at the end of its body
re_search ==
  /\ pc = "search"
  /\ match' = search(line)
  /\ pc' = "while"
  /\ UNCHANGED << confdata, arg, line, ret, exc >>
  /\ UNCHANGED << filevars, confrest, optvars >>

\* The body of `while match`, up to line.replace: every occurrence of the
\* placeholder of match.group(1) is replaced, or RuntimeError is raised.
do_replacement_body ==
  /\ pc = "while"
  /\ match.found
  /\ LET Body(varname, r) ==
           IF r.ok THEN /\ line' = replace(line, << "@" >> \o varname \o << "@" >>, r.val)
                        /\ pc' = "search"
                        /\ UNCHANGED exc
                   ELSE /\ exc' = r.exc
                        /\ pc' = "raise"
                        /\ UNCHANGED line
     IN  Body(match.group1, replacement_var(confdata, match.group1))
  /\ UNCHANGED << confdata, arg, match, ret >>
  /\ UNCHANGED << filevars, confrest, optvars >>

\* `while match` with no match: return line
do_replacement_return ==
  /\ pc = "while"
  /\ ~match.found
  /\ ret' = line
  /\ pc' = "return"
  /\ UNCHANGED << confdata, arg, line, match, exc >>
  /\ UNCHANGED << filevars, confrest, optvars >>

LineNext ==
  \/ CallMesondefine
  \/ CallReplacement
  \/ re_search
  \/ do_replacement_body
  \/ do_replacement_return

LineSpec == LineInit /\ [][LineNext]_vars

\* The interpreter runs a call until it returns or raises.
LineFairSpec == LineSpec /\ WF_vars(LineNext)

\* ------------------------------------------------------------ claims on lines

\* The directive of the examples.
DirectiveFOO == <<"#", "m", "e", "s", "o", "n", "d", "e", "f", "i", "n", "e", " ", "F", "O", "O", "\n">>

\* C11: do_mesondefine called with a line of exactly two whitespace-separated
\* tokens returns one line decided by the entry of the second token: absent
\* gives '/* undef ID */', true '#define ID', false '#undef ID', an integer
\* '#define ID <decimal>', a string '#define ID <string>', any other kind fails
\* with UnsupportedDefineType; a boolean is never rendered as 0 or 1.  Any
\* other number of tokens fails with MalformedDirective.
C11_DirectiveRendering ==
  [][ pc = "call" /\ pc' \in {"return", "raise"} =>
        LET arr == split(arg)
            id  == arr[2]
        IN  IF Len(arr) # 2
            THEN pc' = "raise" /\ exc'.cls = "MesonException" /\ exc'.kind = "MalformedDirective"
            ELSE /\ id \notin DOMAIN confdata =>
                      pc' = "return" /\ ret' = <<"/", "*", " ", "u", "n", "d", "e", "f", " ">> \o id \o <<" ", "*", "/", "\n">>
                 /\ id \in DOMAIN confdata /\ confdata[id] = PyBool(TRUE) =>
                      pc' = "return" /\ ret' = <<"#", "d", "e", "f", "i", "n", "e", " ">> \o id \o <<"\n">>
                 /\ id \in DOMAIN confdata /\ confdata[id] = PyBool(FALSE) =>
                      pc' = "return" /\ ret' = <<"#", "u", "n", "d", "e", "f", " ">> \o id \o <<"\n">>
                 /\ id \in DOMAIN confdata /\ confdata[id].t = "int" =>
                      /\ pc' = "return"
                      /\ ret' = <<"#", "d", "e", "f", "i", "n", "e", " ">> \o id \o <<" ">> \o str_int(confdata[id].v) \o <<"\n">>
                      /\ confdata[id].v = 0 - 12 => ret' = <<"#", "d", "e", "f", "i", "n", "e", " ", "F", "O", "O", " ", "-", "1", "2", "\n">>
                      /\ confdata[id].v = 0 => ret' = <<"#", "d", "e", "f", "i", "n", "e", " ", "F", "O", "O", " ", "0", "\n">>
                      /\ confdata[id].v = 1 => ret' = <<"#", "d", "e", "f", "i", "n", "e", " ", "F", "O", "O", " ", "1", "\n">>
                 /\ id \in DOMAIN confdata /\ confdata[id].t = "str" =>
                      pc' = "return" /\ ret' = <<"#", "d", "e", "f", "i", "n", "e", " ">> \o id \o <<" ">> \o confdata[id].v \o <<"\n">>
                 /\ id \in DOMAIN confdata /\ confdata[id].t \notin {"bool", "int", "str"} =>
                      /\ pc' = "raise"
                      /\ exc'.cls = "MesonException"
                      /\ exc'.kind = "UnsupportedDefineType"
                 /\ pc' = "return" => Len(ret') > 0 /\ \A i \in 1..Len(ret') :
                                                         (ret'[i] = "\n") <=> (i = Len(ret')) ]_vars

\* The directive for FOO, with FOO true, was rendered as an enabled macro.
C11_Witness ==
  /\ pc = "return"
  /\ arg = DirectiveFOO
  /\ <<"F", "O", "O">> \in DOMAIN confdata
  /\ confdata[<<"F", "O", "O">>] = PyBool(TRUE)
  /\ ret = <<"#", "d", "e", "f", "i", "n", "e", " ", "F", "O", "O", "\n">>

\* The first placeholder of l, by position: [found, from, to]
Leftmost(l) ==
  LET closes(i) == {j \in (i + 1)..Len(l) :
                      l[j] = "@" /\ \A k \in (i + 1)..(j - 1) : l[k] # "\n"}
      opens == {i \in 1..Len(l) : l[i] = "@" /\ closes(i) # {}}
      First(i) == [found |-> TRUE, from |-> i,
                   to |-> CHOOSE j \in closes(i) : \A k \in closes(i) : j <= k]
  IN  IF opens = {} THEN [found |-> FALSE]
      ELSE First(CHOOSE i \in opens : \A k \in opens : i <= k)

\* The text that stands for identifier id: a string as it is, an integer in
\* decimal, nothing when the mapping has no entry.
ValueText(cd, id) ==
  IF id \notin DOMAIN cd THEN << >>
  ELSE IF cd[id].t = "str" THEN cd[id].v
  ELSE str_int(cd[id].v)

RECURSIVE Substituted(_, _)
\* l with each of its placeholders, from the left, replaced by its text and
\* all other text kept.
Substituted(l, cd) ==
  LET Put(m) == IF ~m.found THEN l
                ELSE SubSeq(l, 1, m.from - 1)
                       \o ValueText(cd, SubSeq(l, m.from + 1, m.to - 1))
                       \o Substituted(SubSeq(l, m.to + 1, Len(l)), cd)
  IN  Put(Leftmost(l))

\* Every value of the mapping is a string or an integer.
StringsAndIntegers(cd) == \A k \in DOMAIN cd : cd[k].t \in {"str", "int"}

\* C12: with a mapping of strings and integers do_replacement returns the line
\* with every placeholder replaced by its value (or by nothing when absent)
\* and the text outside placeholders unchanged, so '@NAME@-@COUNT@' gives
\* 'x-3' and '@MISSING@' gives the empty text.
C12_EveryPlaceholderReplaced ==
  [][ pc = "while" /\ pc' = "return" /\ StringsAndIntegers(confdata) =>
        ret' = Substituted(arg, confdata) ]_vars

\* C13: a placeholder that names an entry which is neither a string nor an
\* integer (a boolean included) makes do_replacement raise its internal error
\* and return no line.
C13_OtherKindsRefused ==
  [][ /\ pc = "while"
      /\ match.found
      /\ match.group1 \in DOMAIN confdata
      /\ confdata[match.group1].t \notin {"str", "int"}
      => pc' = "raise" /\ exc'.kind = "InternalError" /\ ret' = ret ]_vars

\* C16: every call of do_replacement comes to an end: once entered it returns
\* or raises.
C16_ReplacementEnds == (pc = "search") ~> (pc \in {"return", "raise"})

\* ------------------------------------------------------------ templates: files

MaxCalls == 2

RECURSIVE universal_newlines(_)
\* What a file opened in text mode gives to read(): '\r\n' and a lone '\r'
\* arrive as '\n'.
universal_newlines(bytes) ==
  IF bytes = << >> THEN << >>
  ELSE IF Head(bytes) = "\r"
  THEN << "\n" >> \o universal_newlines(IF Len(bytes) > 1 /\ bytes[2] = "\n"
                                        THEN SubSeq(bytes, 3, Len(bytes))
                                        ELSE Tail(bytes))
  ELSE << Head(bytes) >> \o universal_newlines(Tail(bytes))

\* open(f, 'r').read()
read(f) == universal_newlines(f.content)

RECURSIVE LinesFrom(_, _, _)
\* The lines of text from index i on, each with its '\n'; cur is the line
\* being collected.
LinesFrom(text, i, cur) ==
  IF i > Len(text) THEN (IF cur = << >> THEN << >> ELSE << cur >>)
  ELSE IF text[i] = "\n" THEN << Append(cur, "\n") >> \o LinesFrom(text, i + 1, << >>)
  ELSE LinesFrom(text, i + 1, Append(cur, text[i]))

\* open(src).readlines()
readlines(f) == LinesFrom(read(f), 1, << >>)

RECURSIVE writelines(_)
\* What writelines(result) puts in the file (on a system whose line
\* separator is '\n').
writelines(lines) ==
  IF lines = << >> THEN << >> ELSE Head(lines) \o writelines(Tail(lines))

\* The mode of a file that open(..., 'w') creates (umask 022).
DefaultMode == "rw-r--r--"

\* open(dst_tmp, 'w').writelines(result): the file dst_tmp afterwards
written(tmp, lines, now) ==
  [present |-> TRUE,
   content |-> writelines(lines),
   mode    |-> IF tmp.present THEN tmp.mode ELSE DefaultMode,
   mtime   |-> now]

\* shutil.copymode(src, dst_tmp): the file dst_tmp afterwards
copymode(s, tmp) == [tmp EXCEPT !.mode = s.mode]

\* replace_if_different without the comparison: the destination is always replaced.
replace_always(d, tmp) == [dst |-> tmp, dst_tmp |-> NoFile]

\* replace_if_different(dst, dst_tmp): the two files afterwards
replace_if_different(d, tmp) ==
  IF d.present /\ read(d) = read(tmp)
  THEN [dst |-> d, dst_tmp |-> NoFile]
  ELSE [dst |-> tmp, dst_tmp |-> NoFile]

\* The template files.
Sources ==
  { <<"@", "N", "A", "M", "E", "@", "\n", "#", "m", "e", "s", "o", "n", "d", "e", "f", "i", "n", "e", " ", "F", "O", "O", "\n">>, <<"o", "k", "\n", "#", "m", "e", "s", "o", "n", "d", "e", "f", "i", "n", "e", "\n">>, <<"v", "=", "@", "L", "@", "\n">>, <<"#", "m", "e", "s", "o", "n", "d", "e", "f", "i", "n", "e", " ", "L", "\n">>,
    <<"@", "N", "A", "M", "E", "@", "\r", "\n", "#", "m", "e", "s", "o", "n", "d", "e", "f", "i", "n", "e", " ", "F", "O", "O", "\r", "\n">> }

SourceModes == { "rw-r--r--", "rwxr-xr-x" }

\* The configuration data of the renders.
FileMappings ==
  { (<<"N", "A", "M", "E">> :> PyStr(<<"x">>) @@ <<"F", "O", "O">> :> PyBool(TRUE) @@ <<"L">> :> PyInt(1)),
    (<<"N", "A", "M", "E">> :> PyStr(<<"y">>) @@ <<"L">> :> PyList(<< <<"a">> >>)) }

\* What may be at the destination before the first render: nothing, another
\* text, or the text of a render with the line endings of another system.
Destinations ==
  << NoFile,
     [present |-> TRUE, content |-> <<"o", "l", "d", "\n">>, mode |-> "rw-------", mtime |-> 0],
     [present |-> TRUE, content |-> <<"x", "\r", "\n", "#", "d", "e", "f", "i", "n", "e", " ", "F", "O", "O", "\r", "\n">>, mode |-> "rw-r--r--", mtime |-> 0] >>

FileInit ==
  /\ \E i \in 1..Len(Destinations) : dst = Destinations[i]
  /\ dst_tmp = NoFile
  /\ src = NoFile
  /\ confdata = EmptyData
  /\ pc = "idle"
  /\ exc = NoExc
  /\ arg = << >>
  /\ line = << >>
  /\ match = [found |-> FALSE]
  /\ ret = << >>
  /\ data = << >>
  /\ result = << >>
  /\ li = 1
  /\ clock = 0
  /\ last = NoFile
  /\ tool = "mconf"
  /\ coredata_file = NoFile
  /\ build_file = NoFile
  /\ sets = <<>>
  /\ ndirs = 0
  /\ idx = 1
  /\ c = NoConf
  /\ status = -1
  /\ out = <<>>
  /\ loads = <<>>
  /\ saves = <<>>
  /\ before = NoFile
  /\ opt = NoOpt
  /\ op = ""
  /\ raw = Unset
  /\ res = NoRes
  /\ prev = NoOpt

\* do_conf_file opening the temporary file before it renders the lines.
do_conf_file_call_opening ==
  /\ pc \in {"idle", "done", "raise"}
  /\ clock < MaxCalls
  /\ \E content \in Sources, mode \in SourceModes, cd \in FileMappings :
       /\ src' = [present |-> TRUE, content |-> content, mode |-> mode]
       /\ confdata' = cd
       /\ data' = readlines(src')
  /\ last' = IF pc = "done"
             THEN [present |-> TRUE, src |-> src, confdata |-> confdata, dst |-> dst]
             ELSE NoFile
  /\ clock' = clock + 1
  /\ dst_tmp' = written(dst_tmp, << >>, clock')
  /\ result' = << >>
  /\ li' = 1
  /\ exc' = NoExc
  /\ pc' = "for"
  /\ UNCHANGED << arg, line, match, ret, dst >>
  /\ UNCHANGED << confrest, optvars >>

\* do_conf_file(src, dst, confdata) is called and reads the lines of src; the
\* render before it, when it came to its end, is remembered.
do_conf_file_call ==
  /\ pc \in {"idle", "done", "raise"}
  /\ clock < MaxCalls
  /\ \E content \in Sources, mode \in SourceModes, cd \in FileMappings :
       /\ src' = [present |-> TRUE, content |-> content, mode |-> mode]
       /\ confdata' = cd
       /\ data' = readlines(src')
  /\ last' = IF pc = "done"
             THEN [present |-> TRUE, src |-> src, confdata |-> confdata, dst |-> dst]
             ELSE NoFile
  /\ clock' = clock + 1
  /\ result' = << >>
  /\ li' = 1
  /\ exc' = NoExc
  /\ pc' = "for"
  /\ UNCHANGED << arg, line, match, ret, dst, dst_tmp >>
  /\ UNCHANGED << confrest, optvars >>

\* `for line in data`: a directive line is rendered by do_mesondefine and
\* appended; any other line enters do_replacement.
do_conf_file_for ==
  /\ pc = "for"
  /\ li <= Len(data)
  /\ IF startswith(data[li], <<"#", "m", "e", "s", "o", "n", "d", "e", "f", "i", "n", "e">>)
     THEN LET Outcome(r) ==
                IF r.ok THEN /\ result' = Append(result, r.val)
                             /\ li' = li + 1
                             /\ pc' = "for"
                             /\ UNCHANGED exc
                        ELSE /\ exc' = r.exc
                             /\ pc' = "raise"
                             /\ UNCHANGED << result, li >>
          IN  /\ Outcome(do_mesondefine(data[li], confdata))
              /\ UNCHANGED << arg, line >>
     ELSE /\ arg' = data[li]
          /\ line' = data[li]
          /\ pc' = "search"
          /\ UNCHANGED << result, li, exc >>
  /\ UNCHANGED << confdata, match, ret, src, dst, dst_tmp, data, clock, last >>
  /\ UNCHANGED << confrest, optvars >>

\* result.append(line) with the line do_replacement returned
do_conf_file_append ==
  /\ pc = "return"
  /\ result' = Append(result, ret)
  /\ li' = li + 1
  /\ pc' = "for"
  /\ UNCHANGED << confdata, arg, line, match, ret, src, dst, dst_tmp, data, clock, last, exc >>
  /\ UNCHANGED << confrest, optvars >>

\* open(dst_tmp, 'w').writelines(result), after the last line
do_conf_file_write ==
  /\ pc = "for"
  /\ li > Len(data)
  /\ dst_tmp' = written(dst_tmp, result, clock)
  /\ pc' = "copymode"
  /\ UNCHANGED << confdata, arg, line, match, ret, src, dst, data, result, li, clock, last, exc >>
  /\ UNCHANGED << confrest, optvars >>

\* shutil.copymode(src, dst_tmp)
do_conf_file_copymode ==
  /\ pc = "copymode"
  /\ dst_tmp' = copymode(src, dst_tmp)
  /\ pc' = "replace_if_different"
  /\ UNCHANGED << confdata, arg, line, match, ret, src, dst, data, result, li, clock, last, exc >>
  /\ UNCHANGED << confrest, optvars >>

\* replace_if_different(dst, dst_tmp), the end of do_conf_file
do_conf_file_commit ==
  /\ pc = "replace_if_different"
  /\ dst' = replace_if_different(dst, dst_tmp).dst
  /\ dst_tmp' = replace_if_different(dst, dst_tmp).dst_tmp
  /\ pc' = "done"
  /\ UNCHANGED << confdata, arg, line, match, ret, src, data, result, li, clock, last, exc >>
  /\ UNCHANGED << confrest, optvars >>

FileNext ==
  \/ do_conf_file_call
  \/ do_conf_file_for
  \/ re_search
  \/ do_replacement_body
  \/ do_replacement_return
  \/ do_conf_file_append
  \/ do_conf_file_write
  \/ do_conf_file_copymode
  \/ do_conf_file_commit

FileSpec == FileInit /\ [][FileNext]_vars

\* ------------------------------------------------------------ claims on files

\* This render was given the source text and the mapping of the render before
\* it, which came to its end.
SameRenderAgain ==
  /\ last.present
  /\ last.src.content = src.content
  /\ last.confdata = confdata

C17_FailureLeavesFiles ==
  [][ /\ pc' \in {"for", "search", "while", "return", "raise"} =>
           /\ dst' = dst
           /\ ~dst_tmp'.present
      /\ pc' = "raise" =>
           exc'.kind \in {"MalformedDirective", "UnsupportedDefineType", "InternalError"}
    ]_vars

\* The second render failed on its second line: the destination is still the
\* file of the first render and there is no temporary file.
C17_Witness ==
  /\ pc = "raise"
  /\ clock = 2
  /\ li = 2
  /\ exc.kind = "MalformedDirective"
  /\ dst.present
  /\ dst.mtime = 1
  /\ ~dst_tmp.present

\* C18: after every render that came to its end the destination has the
\* permission bits of the source.
C18_ModeOfSource == pc = "done" => dst.present /\ dst.mode = src.mode

\* ------------------------------------------------------------ the shown value

\* repr of a list of strings, as str() of a list shows it
repr_list(l) ==
  << "[" >> \o join(<<",", " ">>, [i \in 1..Len(l) |-> << "'" >> \o l[i].v \o << "'" >>]) \o << "]" >>

\* str(value)
str_value(value) ==
  IF IsBool(value) THEN (IF value.v THEN <<"T", "r", "u", "e">> ELSE <<"F", "a", "l", "s", "e">>)
  ELSE IF IsStr(value) THEN value.v
  ELSE IF IsList(value) THEN repr_list(value.v)
  ELSE str_int(value.v)

\* print_aligned without the conversion of booleans: the value through '%s'.
print_aligned_value_plain(t, value) == str_value(value)

\* print_aligned: the text shown in the column 'Current Value' of a row.  The
\* package shows a bool as 'true' or 'false' and anything else through '%s';
\* the script shows 'true' when str(value) is 'True' and 'false' otherwise.
print_aligned_value(t, value) ==
  IF t = "mconf"
  THEN (IF IsBool(value) THEN (IF value.v THEN <<"t", "r", "u", "e">> ELSE <<"f", "a", "l", "s", "e">>) ELSE str_value(value))
  ELSE (IF str_value(value) = <<"T", "r", "u", "e">> THEN <<"t", "r", "u", "e">> ELSE <<"f", "a", "l", "s", "e">>)

\* A boolean option of a project, as constructed, beside a configurator.
ShowInit ==
  /\ \E r \in Constructions : r.ok /\ r.self.kind = "boolean" /\ opt = r.self
  /\ tool \in {"mconf", "mesonconf"}
  /\ op = ""
  /\ raw = Unset
  /\ res = NoRes
  /\ prev = opt
  /\ coredata_file = NoFile
  /\ build_file = NoFile
  /\ pc = "off"
  /\ sets = <<>>
  /\ ndirs = 0
  /\ idx = 1
  /\ c = NoConf
  /\ exc = NoExc
  /\ status = -1
  /\ out = <<>>
  /\ loads = <<>>
  /\ saves = <<>>
  /\ before = NoFile
  /\ NoTemplate

\* print_aligned shows the row of opt: its value goes to the output.
print_aligned_row ==
  /\ out' = << print_aligned_value(tool, opt.value) >>
  /\ op' = "print_aligned"
  /\ raw' = opt.value
  /\ res' = Returned(opt)
  /\ prev' = opt
  /\ UNCHANGED opt
  /\ UNCHANGED << tool, coredata_file, build_file, pc, sets, ndirs, idx, c, exc, status,
                  loads, saves, before >>
  /\ UNCHANGED tmplvars

ShowNext ==
  \/ BooleanSetValue
  \/ BooleanParseString
  \/ print_aligned_row

ShowSpec == ShowInit /\ [][ShowNext]_vars

\* C15: the value of a Boolean option is shown as exactly 'true' or 'false',
\* 'true' for true, and handing the shown text back to the option, through
\* set_value or through parse_string, gives the truth value that was shown.
C15_ShownValueRoundTrip ==
  [][ /\ op' = "print_aligned" =>
           /\ out'[1] \in { <<"t", "r", "u", "e">>, <<"f", "a", "l", "s", "e">> }
           /\ (out'[1] = <<"t", "r", "u", "e">>) <=> (opt'.value = PyBool(TRUE))
           /\ (out'[1] = <<"f", "a", "l", "s", "e">>) <=> (opt'.value = PyBool(FALSE))
      /\ op = "print_aligned" /\ op' = "set_value" /\ raw' = PyStr(out[1]) =>
           res'.ok /\ opt'.value = opt.value
      /\ op = "print_aligned" /\ op' = "parse_string" /\ raw' = PyStr(out[1]) =>
           res'.ok /\ res'.self.value = opt.value
    ]_vars

\* The value false was shown as 'false', and set_value took the shown text
\* back as false.
C15_Witness ==
  /\ op = "set_value"
  /\ out = << <<"f", "a", "l", "s", "e">> >>
  /\ raw = PyStr(<<"f", "a", "l", "s", "e">>)
  /\ res.ok
  /\ prev.value = PyBool(FALSE)
  /\ opt.value = PyBool(FALSE)

====
